---------------------------- MODULE Spec2Model ----------------------------
(***************************************************************************)
(* A model of eesh: its scrollback buffer (LogBuffer) and line wrapper,    *)
(* the command alias table (CommandAliases), the motion recorder           *)
(* (InputHandler), the tokenizer (MotionTokenizer), the Mutex that guards  *)
(* the buffer, the main loop and UI task of App::run, and the terminal     *)
(* handle (Tui).                                                           *)
(*                                                                         *)
(* The specifications share the module's variables; each one drives one    *)
(* component and leaves the others parked at their initial values:         *)
(*   Spec       LogBuffer: push_line, set/inc/dec_scroll, render_ref       *)
(*   SpecWrap   LogBuffer::rows (wrap loop) and LogBuffer::line_height     *)
(*   SpecAlias  CommandAliases::get                                        *)
(*   SpecInput  InputHandler::append / clear / Display                     *)
(*   SpecLex    MotionTokenizer::next                                      *)
(*   SpecConc   the main and UI threads on Arc<Mutex<LogBuffer>>           *)
(*   SpecLoop   App::run as it is in the source                            *)
(*   SpecExit   App::run with a consumer of the motion that calls          *)
(*              Api::exit in place of the unimplemented one                *)
(*   SpecTui    Tui::acquire and Tui::release, called by two callers       *)
(*   SpecArith  the scroll and offset arithmetic at the ends of u16        *)
(*   SpecLock   the RwLock of the context and the Mutex of the buffer, as  *)
(*              run's main thread and UI task take them                     *)
(***************************************************************************)
EXTENDS Integers, Sequences, FiniteSets, TLC

VARIABLES
    \* ---- LogBuffer (src/src/widget/logbuffer.rs:18-24) ----
    buf_limit,          \* LogBuffer.buf_limit : u16
    scroll,             \* LogBuffer.scroll : u16
    last_frame_height,  \* LogBuffer.last_frame_height : AtomicU16
    raw,                \* LogBuffer.raw : VecDeque of lines (a line is its push number)
    pushed,             \* number of push_line calls made so far
    lb_pc,              \* "idle", or "evict_loop" while push_line's loop runs
    last_op,            \* the operation that produced this state
    last_arg,           \* its argument (set_scroll's value, render's height)
    t_offset,           \* the TableState offset computed by the last render_ref
    \* ---- rows() wrap loop and line_height ----
    w_line,             \* the content Line: a sequence of spans
    w_width,            \* content_width : u16
    w_text,             \* the Text built by the wrap loop: a sequence of Lines
    w_height,           \* row_height: line_height(content, content_width) as u16
    w_pc,               \* "input" or "done"
    \* ---- CommandAliases ----
    aliases,            \* CommandAliases.0 : HashMap<String, String>
    a_key,              \* the key given to get
    a_res,              \* what get returned
    a_pc,               \* "input" or "done"
    \* ---- InputHandler ----
    motion,             \* InputHandler.motion : Vec<KeyEvent>
    hist,               \* every call made on the handler so far, in order
    \* ---- MotionTokenizer ----
    lx_aliases,         \* MotionTokenizer.aliases : &CommandAliases
    lx_seen,            \* the key events taken from MotionTokenizer.input so far
    lx_ended,           \* whether input has returned None
    lx_out,             \* the tokens next() has returned so far
    lx_ret,             \* what the last call of next() returned
    lx_pc,              \* "run", or "panic" once next() has panicked
    lx_after,           \* calls of next() made after one returned None
    \* ---- Arc<Mutex<LogBuffer>> and the threads that lock it ----
    mtx_holder,         \* None, or Some(t) while thread t holds the MutexGuard
    mtx_poisoned,       \* the Mutex's poison flag
    mtx_snap,           \* the buffer as it was when the Mutex was poisoned
    th_pc,              \* per thread: where it is in its operation
    th_op,              \* per thread: the operation it is in
    th_res,             \* per thread: what its last lock() gave it
    th_obs,             \* the count() the running render saw in rows()
    \* ---- App::run: the main loop, the UI task and the terminal ----
    m_pc,               \* where the main thread is in run
    ui_pc,              \* where the UI task is
    exit,               \* App.exit : AtomicBool
    stop_signal,        \* whether the OnceCell stop_signal is initialized
    ev_queue,           \* terminal events not yet returned by event::read
    ev_seen,            \* every terminal event that has arrived, in order
    ctx_line,           \* shared_context.user_line
    frames,             \* iterations of the main loop started so far
    exit_frame,         \* the iteration in which exit was set
    acquired,           \* TERMINAL_ACQUIRED
    released,           \* calls of Tui::release made so far
    restores,           \* calls of Tui::restore made so far
    \* ---- Tui::acquire / Tui::release and their callers ----
    hooks_set,          \* whether eyre's error hook has been installed
    term_raw,           \* whether the terminal is in raw mode on the alternate screen
    tu_pc,              \* per caller: where it is in acquire
    tu_res,             \* per caller: what its last acquire returned
    tu_handles,         \* per caller: the Tui handles it holds
    tu_free,            \* per caller: whether its last acquire began with no
                        \* handle live and no other call under way
    tu_io,              \* per caller: whether its last acquire met an io error
    tu_calls,           \* calls of acquire and release made so far
    \* ---- scroll and viewport arithmetic at the ends of the u16 range ----
    ar_n,               \* count(): the number of stored lines
    ar_h,               \* last_frame_height
    ar_s,               \* scroll
    ar_old,             \* ar_n, ar_h and ar_s before the last operation
    ar_op,              \* the last operation
    ar_arg,             \* its argument
    ar_off,             \* the TableState offset of the last render_ref
    ar_steps,           \* operations made so far
    \* ---- the two locks: RwLock<RenderContext> and Mutex<LogBuffer> ----
    k_main,             \* where the main thread is in run
    k_ui,               \* where the UI task is
    k_pc,               \* per thread: where it is in its lock operation
    k_op,               \* per thread: the operation it is making
    k_held,             \* per thread: the locks whose guard it holds
    k_waited,           \* per thread: whether its last request had to wait
    k_edges,            \* per thread: <<held, requested>> for every request
                        \* it made while it held a guard
    k_logs,             \* tracing events of run's start logged so far
    k_ops,              \* events and scroll commands of the loop so far
    k_renders,          \* render_frame calls finished so far
    k_ctx_set,          \* whether the context holds the log buffer yet
    k_poisoned          \* the Mutex's poison flag

lbVars == <<buf_limit, scroll, last_frame_height, raw, pushed, lb_pc,
            last_op, last_arg, t_offset>>
wrapVars == <<w_line, w_width, w_text, w_height, w_pc>>
aliasVars == <<aliases, a_key, a_res, a_pc>>
inputVars == <<motion, hist>>
lexVars == <<lx_aliases, lx_seen, lx_ended, lx_out, lx_ret, lx_pc, lx_after>>
concVars == <<mtx_holder, mtx_poisoned, mtx_snap, th_pc, th_op, th_res, th_obs>>
loopVars == <<m_pc, ui_pc, exit, stop_signal, ev_queue, ev_seen, ctx_line,
              frames, exit_frame, acquired, released, restores>>
tuiVars == <<hooks_set, term_raw, tu_pc, tu_res, tu_handles, tu_free, tu_io,
             tu_calls>>
arithVars == <<ar_n, ar_h, ar_s, ar_old, ar_op, ar_arg, ar_off, ar_steps>>
lockVars == <<k_main, k_ui, k_pc, k_op, k_held, k_waited, k_edges, k_logs,
              k_ops, k_renders, k_ctx_set, k_poisoned>>
vars == <<lbVars, wrapVars, aliasVars, inputVars, lexVars, concVars, loopVars,
          tuiVars, arithVars, lockVars>>

\* what an operation of one component leaves alone: the other components
notLB == <<wrapVars, aliasVars, inputVars, lexVars, concVars, loopVars, tuiVars, arithVars, lockVars>>
notWrap == <<lbVars, aliasVars, inputVars, lexVars, concVars, loopVars, tuiVars, arithVars, lockVars>>
notAlias == <<lbVars, wrapVars, inputVars, lexVars, concVars, loopVars, tuiVars, arithVars, lockVars>>
notInput == <<lbVars, wrapVars, aliasVars, lexVars, concVars, loopVars, tuiVars, arithVars, lockVars>>
notLex == <<lbVars, wrapVars, aliasVars, inputVars, concVars, loopVars, tuiVars, arithVars, lockVars>>
notConc == <<wrapVars, aliasVars, inputVars, lexVars, loopVars, tuiVars, arithVars, lockVars>>
notLoop == <<wrapVars, aliasVars, lexVars, concVars, tuiVars, arithVars, lockVars>>
notTui == <<lbVars, wrapVars, aliasVars, inputVars, lexVars, concVars,
            m_pc, ui_pc, exit, stop_signal, ev_queue, ev_seen, ctx_line, frames,
            exit_frame, arithVars, lockVars>>
notArith == <<lbVars, wrapVars, aliasVars, inputVars, lexVars, concVars, loopVars,
              tuiVars, lockVars>>
notLock == <<scroll, last_frame_height, raw, pushed, lb_pc, last_op, last_arg,
             t_offset, buf_limit, wrapVars, aliasVars, inputVars, lexVars,
             concVars, loopVars, tuiVars, arithVars>>

-----------------------------------------------------------------------------
(* Bounds of the model *)

MaxCap == 4        \* buf_limit ranges over 0..MaxCap
MaxPush == 6       \* at most this many push_line calls
MaxHeight == 6     \* render heights range over 0..MaxHeight
MaxScrollArg == 3  \* set_scroll values range over 0..MaxScrollArg and u16::MAX

(* u16::MAX, the range of buf_limit, scroll and last_frame_height *)
U16Max == 65535

Min(a, b) == IF a < b THEN a ELSE b
Max(a, b) == IF a > b THEN a ELSE b

-----------------------------------------------------------------------------
(* u16 arithmetic as the code uses it *)

\* an addition that wraps at 2^16
WrappingAdd(a, b) == (a + b) % (U16Max + 1)

SaturatingAdd(a, b) == Min(a + b, U16Max)
SaturatingSub(a, b) == Max(a - b, 0)

\* usize -> u16: count().try_into().unwrap_or(u16::MAX)
TryIntoU16(n) == IF n <= U16Max THEN n ELSE U16Max

\* Ord::clamp(self, min, max)
Clamp(v, lo, hi) == IF v > hi THEN hi ELSE IF v < lo THEN lo ELSE v

-----------------------------------------------------------------------------
(* LogBuffer *)

count(q) == Len(q)

\* the upper bound clamp_scroll computes from count() and last_frame_height
\* a bound without the two rows of chrome
ScrollBoundNoChrome(n, h) == SaturatingSub(TryIntoU16(n), h)

\* the same bound, from the count
ScrollBoundOf(n, h) == SaturatingSub(SaturatingAdd(TryIntoU16(n), 2), h)

ScrollBound(q, h) == ScrollBoundOf(count(q), h)

clamp_scroll(value, q, h) == Clamp(value, 0, ScrollBound(q, h))

\* a push_line that leaves the scroll offset alone
FollowNever(s, q, h) == s

\* push_line's scroll adjustment, made after the push_back
FollowScroll(s, q, h) ==
    IF s # 0 THEN clamp_scroll(SaturatingAdd(s, 1), q, h) ELSE s

\* a push_line without its eviction loop
EvictNone(q, limit) == q

\* push_line's loop: while raw.len() >= buf_limit { raw.pop_front(); }
\* (for limit > 0; with limit = 0 the condition never turns false)
RECURSIVE Evict(_, _)
Evict(q, limit) ==
    IF Len(q) >= limit /\ q # <<>> THEN Evict(Tail(q), limit) ELSE q

InitLB ==
    /\ buf_limit \in 0..MaxCap
    /\ scroll = 0
    /\ last_frame_height = 0
    /\ raw = <<>>
    /\ pushed = 0
    /\ lb_pc = "idle"
    /\ last_op = "new"
    /\ last_arg = 0
    /\ t_offset = 0

ParkLB ==
    /\ buf_limit = 0
    /\ scroll = 0
    /\ last_frame_height = 0
    /\ raw = <<>>
    /\ pushed = 0
    /\ lb_pc = "idle"
    /\ last_op = "new"
    /\ last_arg = 0
    /\ t_offset = 0

\* a push_line that pushes at the front of the deque
push_line_front ==
    /\ lb_pc = "idle"
    /\ pushed < MaxPush
    /\ LET q1 == <<pushed + 1>> \o raw
           s1 == FollowScroll(scroll, q1, last_frame_height)
       IN /\ scroll' = s1
          /\ raw' = Evict(q1, buf_limit)
          \* with buf_limit = 0, raw.len() >= 0 holds forever: the loop
          \* keeps popping the empty deque and push_line never returns
          /\ lb_pc' = IF buf_limit = 0 THEN "evict_loop" ELSE "idle"
    /\ pushed' = pushed + 1
    /\ last_op' = "push_line"
    /\ last_arg' = pushed + 1
    /\ UNCHANGED <<buf_limit, last_frame_height, t_offset, notLB>>

push_line ==
    /\ lb_pc = "idle"
    /\ pushed < MaxPush
    /\ LET q1 == Append(raw, pushed + 1)
           s1 == FollowScroll(scroll, q1, last_frame_height)
       IN /\ scroll' = s1
          /\ raw' = Evict(q1, buf_limit)
          \* with buf_limit = 0, raw.len() >= 0 holds forever: the loop
          \* keeps popping the empty deque and push_line never returns
          /\ lb_pc' = IF buf_limit = 0 THEN "evict_loop" ELSE "idle"
    /\ pushed' = pushed + 1
    /\ last_op' = "push_line"
    /\ last_arg' = pushed + 1
    /\ UNCHANGED <<buf_limit, last_frame_height, t_offset, notLB>>

\* one more turn of the loop on the empty deque: pop_front() returns None
evict_spin ==
    /\ lb_pc = "evict_loop"
    /\ raw' = Evict(raw, buf_limit)
    /\ UNCHANGED <<buf_limit, scroll, last_frame_height, pushed, lb_pc,
                   last_op, last_arg, t_offset, notLB>>

ScrollArgs == (0..MaxScrollArg) \cup {U16Max}

set_scroll(val) ==
    /\ lb_pc = "idle"
    /\ scroll' = clamp_scroll(val, raw, last_frame_height)
    /\ last_op' = "set_scroll"
    /\ last_arg' = val
    /\ UNCHANGED <<buf_limit, last_frame_height, raw, pushed, lb_pc, t_offset,
                   notLB>>

inc_scroll ==
    /\ lb_pc = "idle"
    /\ scroll' = clamp_scroll(SaturatingAdd(scroll, 1), raw, last_frame_height)
    /\ last_op' = "inc_scroll"
    /\ last_arg' = 0
    /\ UNCHANGED <<buf_limit, last_frame_height, raw, pushed, lb_pc, t_offset,
                   notLB>>

dec_scroll ==
    /\ lb_pc = "idle"
    /\ scroll' = clamp_scroll(SaturatingSub(scroll, 1), raw, last_frame_height)
    /\ last_op' = "dec_scroll"
    /\ last_arg' = 0
    /\ UNCHANGED <<buf_limit, last_frame_height, raw, pushed, lb_pc, t_offset,
                   notLB>>

\* an offset that takes the whole height for lines
TableOffsetNoChrome(n, height, s) == Max(Max(n - height, 0) - s, 0)

\* TableState::with_offset(count - (height - 2) - scroll), all saturating
\* the same offset, from the count
TableOffsetOf(n, height, s) ==
    Max(Max(n - SaturatingSub(height, 2), 0) - s, 0)

TableOffset(q, height, s) == TableOffsetOf(count(q), height, s)

\* a render that also clamps the scroll offset to the new height
render_reclamp(height) ==
    /\ lb_pc = "idle"
    /\ last_frame_height' = height
    /\ t_offset' = TableOffset(raw, height, scroll)
    /\ scroll' = clamp_scroll(scroll, raw, height)
    /\ last_op' = "render"
    /\ last_arg' = height
    /\ UNCHANGED <<buf_limit, raw, pushed, lb_pc, notLB>>

render_ref(height) ==
    /\ lb_pc = "idle"
    /\ last_frame_height' = height
    /\ t_offset' = TableOffset(raw, height, scroll)
    /\ last_op' = "render"
    /\ last_arg' = height
    /\ UNCHANGED <<buf_limit, scroll, raw, pushed, lb_pc, notLB>>

Next ==
    \/ push_line
    \/ evict_spin
    \/ \E val \in ScrollArgs : set_scroll(val)
    \/ inc_scroll
    \/ dec_scroll
    \/ \E height \in 0..MaxHeight : render_ref(height)

-----------------------------------------------------------------------------
(* Text: a string is a sequence of chars, a Span is a styled string, a     *)
(* Line is a sequence of Spans, a Text is a sequence of Lines.             *)
(* Three kinds of char stand for the cases the wrap loop distinguishes:    *)
(*   "a"  a narrow char (display width 1)                                  *)
(*   "W"  a wide char (display width 2)                                    *)
(*   "m"  a combining mark (display width 0; it extends the grapheme       *)
(*        cluster of the char before it)                                   *)

MaxSpans == 2      \* a content Line has at most this many spans
MaxChars == 3      \* and at most this many chars in all
MaxWidth == 3      \* content_width ranges over 0..MaxWidth

Chars == {"a", "W", "m"}
Styles == {"plain", "bold"}

CharWidth(c) == CASE c = "a" -> 1 [] c = "W" -> 2 [] OTHER -> 0
IsExtend(c) == c = "m"

\* UnicodeWidthStr::width
RECURSIVE StrWidth(_)
StrWidth(s) == IF s = <<>> THEN 0 ELSE CharWidth(Head(s)) + StrWidth(Tail(s))

\* the length of the extended grapheme cluster at the start of s: its first
\* char and every combining mark that follows it
RECURSIVE ClusterLen(_)
ClusterLen(s) ==
    IF Len(s) >= 2 /\ IsExtend(s[2]) THEN 1 + ClusterLen(Tail(s)) ELSE 1

\* s.chars() in place of graphemes(true): one piece per char
GraphemesByChar(s) == [i \in 1..Len(s) |-> <<s[i]>>]

\* UnicodeSegmentation::graphemes(true): the clusters of s, in order
RECURSIVE Graphemes(_)
Graphemes(s) ==
    IF s = <<>> THEN <<>>
    ELSE LET n == ClusterLen(s)
         IN <<SubSeq(s, 1, n)>> \o Graphemes(SubSeq(s, n + 1, Len(s)))

Span(content, style) == [content |-> content, style |-> style]

\* Line::width: the widths of the spans, summed
RECURSIVE LineWidth(_)
LineWidth(line) ==
    IF line = <<>> THEN 0
    ELSE StrWidth(Head(line).content) + LineWidth(Tail(line))

\* the state of the wrap loop: the Text t, the Line acc, the String buf
WrapStart == [t |-> <<>>, acc |-> <<>>, buf |-> <<>>]

\* acc.push_span(Span::styled(take(buf), style)); t.push_line(take(acc))
FlushLine(st, style) ==
    [t |-> Append(st.t, Append(st.acc, Span(st.buf, style))),
     acc |-> <<>>, buf |-> <<>>]

\* a loop body whose test leaves out the width of acc
PushGraphemeNoAcc(st, g, style, width) ==
    LET st1 == IF StrWidth(st.buf) + StrWidth(g) > width
               THEN FlushLine(st, style)
               ELSE st
    IN [st1 EXCEPT !.buf = @ \o g]

\* the body of the grapheme loop
PushGrapheme(st, g, style, width) ==
    LET st1 == IF LineWidth(st.acc) + StrWidth(st.buf) + StrWidth(g) > width
               THEN FlushLine(st, style)
               ELSE st
    IN [st1 EXCEPT !.buf = @ \o g]

RECURSIVE WrapGraphemes(_, _, _, _)
WrapGraphemes(st, gs, style, width) ==
    IF gs = <<>> THEN st
    ELSE WrapGraphemes(PushGrapheme(st, Head(gs), style, width),
                       Tail(gs), style, width)

\* after the grapheme loop: if !buf.is_empty() { acc.push_span(..) }
EndSpan(st, style) ==
    IF st.buf # <<>>
    THEN [st EXCEPT !.acc = Append(@, Span(st.buf, style)), !.buf = <<>>]
    ELSE st

\* one turn of "for span in &content.spans", with its fresh buf
WrapSpan(st, span, width) ==
    EndSpan(WrapGraphemes([st EXCEPT !.buf = <<>>],
                          Graphemes(span.content), span.style, width),
            span.style)

RECURSIVE WrapSpans(_, _, _)
WrapSpans(st, spans, width) ==
    IF spans = <<>> THEN st
    ELSE WrapSpans(WrapSpan(st, Head(spans), width), Tail(spans), width)

\* a final push guarded by !acc.is_empty()
FinishSkipEmpty(st) == IF st.acc = <<>> THEN st.t ELSE Append(st.t, st.acc)

\* after the span loop: t.push_line(acc)
Finish(st) == Append(st.t, st.acc)

\* the third cell of rows(): the Text the wrap loop builds for a content Line
Wrap(line, width) == Finish(WrapSpans(WrapStart, line, width))

\* a height without the saturating_add(1)
line_height_quotient(line, max_width) ==
    IF max_width = 0 THEN 1 ELSE LineWidth(line) \div max_width

\* line.width().checked_div(max_width).unwrap_or(1).saturating_add(1)
line_height(line, max_width) ==
    LET q == IF max_width = 0 THEN 1 ELSE LineWidth(line) \div max_width
    IN q + 1

\* row_height: line_height(..).clamp(0, u16::MAX) as u16
row_height(line, max_width) == Clamp(line_height(line, max_width), 0, U16Max)

\* the strings of at most n chars
RECURSIVE StrsUpTo(_)
StrsUpTo(n) ==
    IF n = 0 THEN {<<>>}
    ELSE LET shorter == StrsUpTo(n - 1)
         IN shorter \cup {Append(s, c) : s \in shorter, c \in Chars}

\* the Lines of at most k spans and at most n chars in all
RECURSIVE LinesUpTo(_, _)
LinesUpTo(k, n) ==
    IF k = 0 THEN {<<>>}
    ELSE {<<>>} \cup
         UNION {{<<Span(s, style)>> \o rest :
                    style \in Styles,
                    rest \in LinesUpTo(k - 1, n - Len(s))} : s \in StrsUpTo(n)}

InitWrap ==
    /\ w_line \in LinesUpTo(MaxSpans, MaxChars)
    /\ w_width \in 0..MaxWidth
    /\ w_text = <<>>
    /\ w_height = 0
    /\ w_pc = "input"

ParkWrap ==
    /\ w_line = <<>>
    /\ w_width = 0
    /\ w_text = <<>>
    /\ w_height = 0
    /\ w_pc = "input"

\* the row rows() builds for one line
rows ==
    /\ w_pc = "input"
    /\ w_text' = Wrap(w_line, w_width)
    /\ w_height' = row_height(w_line, w_width)
    /\ w_pc' = "done"
    /\ UNCHANGED <<w_line, w_width, notWrap>>

NextW == rows

-----------------------------------------------------------------------------
(* CommandAliases.  A String is a sequence of chars here too, so that      *)
(* to_lowercase is computed char by char.                                  *)

MaxOverrides == 2  \* the configuration file sets at most this many aliases

UpperLetters == <<"A", "C", "D", "E", "L", "M", "N", "O", "R", "S">>
LowerLetters == <<"a", "c", "d", "e", "l", "m", "n", "o", "r", "s">>

LowerChar(c) ==
    IF \E i \in DOMAIN UpperLetters : UpperLetters[i] = c
    THEN LowerLetters[CHOOSE i \in DOMAIN UpperLetters : UpperLetters[i] = c]
    ELSE c

\* str::to_lowercase
to_lowercase(s) == [i \in DOMAIN s |-> LowerChar(s[i])]

leader == <<"l", "e", "a", "d", "e", "r">>
commander == <<"c", "o", "m", "m", "a", "n", "d", "e", "r">>

\* the names a configuration file or a caller may spell
AliasNames ==
    {leader, <<"L", "e", "a", "d", "e", "r">>, <<"L", "E", "A", "D", "E", "R">>,
     commander, <<"C", "O", "M", "M", "A", "N", "D", "E", "R">>,
     <<"s", "e", "n", "d">>, <<"S", "E", "N", "D">>}

Triggers == {",", "/", ";"}

\* Option<&str>
None == <<>>
Some(x) == <<x>>

\* the hard-coded defaults of get's match
BuiltinAlias(key) ==
    IF key = leader THEN Some(",")
    ELSE IF key = commander THEN Some("/")
    ELSE None

\* HashMap::get
MapGet(map, key) == IF key \in DOMAIN map THEN Some(map[key]) ELSE None

\* CommandAliases::get
AliasGet(map, name) ==
    LET key == to_lowercase(name)
        found == MapGet(map, key)
    IN IF found # None THEN found ELSE BuiltinAlias(key)

\* what serde's derived Deserialize can build: any map from the names the
\* file spells, as spelt, to trigger strings
AliasTables ==
    UNION {[d -> Triggers] :
              d \in {x \in SUBSET AliasNames : Cardinality(x) <= MaxOverrides}}

InitAlias ==
    /\ aliases \in AliasTables
    /\ a_key = <<>>
    /\ a_res = None
    /\ a_pc = "input"

ParkAlias ==
    /\ aliases = <<>>
    /\ a_key = <<>>
    /\ a_res = None
    /\ a_pc = "input"

get(name) ==
    /\ a_key' = name
    /\ a_res' = AliasGet(aliases, name)
    /\ a_pc' = "done"
    /\ UNCHANGED <<aliases, notAlias>>

NextA == \E name \in AliasNames : get(name)

-----------------------------------------------------------------------------
(* InputHandler.  A KeyEvent is [code, modifiers, kind]; a KeyCode is      *)
(* <<"Char", c>> or <<"Enter">>, <<"Esc">>, <<"Backspace">>, <<"F1">>.     *)

MaxCalls == 4      \* at most this many calls on the handler

Char(c) == <<"Char", c>>
KeyEvent(code, modifiers, kind) ==
    [code |-> code, modifiers |-> modifiers, kind |-> kind]

KeyEvents ==
    {KeyEvent(Char(c), {}, "Press") : c \in {"a", "b", "c"}}
    \cup {KeyEvent(Char("a"), {"CONTROL"}, "Press"),
          KeyEvent(Char("a"), {}, "Release")}
    \cup {KeyEvent(<<k>>, {}, "Press") : k \in {"Enter", "Esc", "Backspace", "F1"}}

\* an append without the Backspace arm
AppendKeepAll(m, ev) ==
    IF ev.code = <<"Esc">> THEN <<>> ELSE Append(m, ev)

\* InputHandler::append: the motion after the match on ev.code
AppendEvent(m, ev) ==
    IF ev.code = <<"Esc">> THEN <<>>
    ELSE IF ev.code = <<"Backspace">>
         THEN (IF m = <<>> THEN m ELSE SubSeq(m, 1, Len(m) - 1))
         ELSE Append(m, ev)

\* a fmt that ignores the modifiers
FmtEventNoCaret(ke) == IF ke.code[1] = "Char" THEN <<ke.code[2]>> ELSE <<>>

\* one turn of fmt's loop: what it writes for the event ke
FmtEvent(ke) ==
    IF ke.code[1] = "Char"
    THEN (IF "CONTROL" \in ke.modifiers THEN <<"^">> ELSE <<>>) \o <<ke.code[2]>>
    ELSE <<>>

\* impl Display for InputHandler (to_string)
RECURSIVE ToDisplayString(_)
ToDisplayString(m) ==
    IF m = <<>> THEN <<>> ELSE FmtEvent(Head(m)) \o ToDisplayString(Tail(m))

InitInput ==
    /\ motion = <<>>
    /\ hist = <<>>

ParkInput ==
    /\ motion = <<>>
    /\ hist = <<>>

append(ev) ==
    /\ Len(hist) < MaxCalls
    /\ motion' = AppendEvent(motion, ev)
    /\ hist' = Append(hist, [call |-> "append", ev |-> ev])
    /\ UNCHANGED notInput

clear ==
    /\ Len(hist) < MaxCalls
    /\ motion' = <<>>
    /\ hist' = Append(hist, [call |-> "clear"])
    /\ UNCHANGED notInput

NextI ==
    \/ \E ev \in KeyEvents : append(ev)
    \/ clear

-----------------------------------------------------------------------------
(* MotionTokenizer.  A MotionToken is a record with its kind and, for the  *)
(* kinds that carry one, its value.                                        *)

MaxKeys == 4       \* the input iterator yields at most this many key events
MaxAfterEnd == 2   \* at most this many calls of next() after the end

Press(code) == KeyEvent(code, {}, "Press")

\* char::is_whitespace, on the chars of the model
IsWhitespace(c) == c \in {" ", "\t"}

IsWhitespaceKey(ke) == ke.code[1] = "Char" /\ IsWhitespace(ke.code[2])

\* the key events the input iterator may yield
LexKeys ==
    {Press(Char(c)) : c \in {",", "/", ";", "q", "\"", "-", "4", "2", " ", "\t"}}
    \cup {Press(<<"Enter">>), Press(<<"F1">>),
          KeyEvent(<<"Up">>, {"CONTROL"}, "Press")}

\* the chars '0'..='9' of the model
Digits == {"4", "2"}

SubmitToken == [kind |-> "Submit"]
ChordToken(ke) == [kind |-> "Chord", ev |-> ke]
ClientCommandToken == [kind |-> "ClientCommand"]
ServerCommandToken == [kind |-> "ServerCommand"]
NumberToken(n) == [kind |-> "Number", n |-> n]
IdentifierToken(text) == [kind |-> "Identifier", text |-> text]

\* what one turn of next()'s loop does with the item input.next() gave it:
\* return a value, panic, or go round again
Returned(v) == [do |-> "return", ret |-> v]
Panicked == [do |-> "panic"]
Continue == [do |-> "continue"]

\* a match that makes a token of the end of the input
DispatchPastEnd(item) ==
    IF item = None THEN Returned(Some(SubmitToken))
    ELSE IF item[1].code = <<"Enter">> THEN Returned(Some(SubmitToken))
    ELSE IF item[1].code[1] = "Char"
         THEN (IF item[1].code[2] = "\"" THEN Panicked
               ELSE IF item[1].code[2] \in {"-"} \cup Digits THEN Panicked
               ELSE IF IsWhitespace(item[1].code[2]) THEN Continue
               ELSE Panicked)
         ELSE Returned(Some(ChordToken(item[1])))

DispatchChordless(item) ==
    IF item = None THEN Returned(None)
    ELSE IF item[1].code = <<"Enter">> THEN Returned(Some(SubmitToken))
    ELSE IF item[1].code[1] = "Char"
         THEN (IF IsWhitespace(item[1].code[2]) THEN Continue ELSE Panicked)
         ELSE Returned(Some(ChordToken(Press(item[1].code))))

\* the match of next(): None, Enter, the four Char arms (three of them
\* todo!(), which panics), and the Chord arm
Dispatch(item) ==
    IF item = None THEN Returned(None)
    ELSE IF item[1].code = <<"Enter">> THEN Returned(Some(SubmitToken))
    ELSE IF item[1].code[1] = "Char"
         THEN (IF item[1].code[2] = "\"" THEN Panicked
               ELSE IF item[1].code[2] \in {"-"} \cup Digits THEN Panicked
               ELSE IF IsWhitespace(item[1].code[2]) THEN Continue
               ELSE Panicked)
         ELSE Returned(Some(ChordToken(item[1])))

\* the runs of whitespace keys of at most n keys
RECURSIVE WhitespaceRuns(_)
WhitespaceRuns(n) ==
    IF n = 0 THEN {<<>>}
    ELSE LET shorter == WhitespaceRuns(n - 1)
         IN shorter \cup {Append(r, k) : r \in shorter,
                                         k \in {x \in LexKeys : IsWhitespaceKey(x)}}

\* the alias tables the tokenizer may be given: no override, or a leader
LexAliasTables == {<<>>} \cup [{leader} -> {";"}]

InitLex ==
    /\ lx_aliases \in LexAliasTables
    /\ lx_seen = <<>>
    /\ lx_ended = FALSE
    /\ lx_out = <<>>
    /\ lx_ret = None
    /\ lx_pc = "run"
    /\ lx_after = 0

ParkLex ==
    /\ lx_aliases = <<>>
    /\ lx_seen = <<>>
    /\ lx_ended = FALSE
    /\ lx_out = <<>>
    /\ lx_ret = None
    /\ lx_pc = "run"
    /\ lx_after = 0

\* one call of Iterator::next: the loop takes the whitespace keys `skipped`,
\* which it passes over, and then `item`, which ends the call.  The input
\* is a finite sequence of key events: once its iterator has yielded None
\* it yields None again
next(skipped, item) ==
    /\ lx_pc = "run"
    /\ Dispatch(item).do # "continue"
    /\ lx_ended => (skipped = <<>> /\ item = None /\ lx_after < MaxAfterEnd)
    /\ lx_after' = IF lx_ended THEN lx_after + 1 ELSE 0
    /\ Len(lx_seen) + Len(skipped) + Len(item) <= MaxKeys
    /\ lx_seen' = lx_seen \o skipped \o item
    /\ lx_ended' = (item = None)
    /\ IF Dispatch(item).do = "panic"
       THEN /\ lx_pc' = "panic"
            /\ UNCHANGED <<lx_out, lx_ret>>
       ELSE /\ lx_pc' = "run"
            /\ lx_ret' = Dispatch(item).ret
            /\ lx_out' = lx_out \o Dispatch(item).ret
    /\ UNCHANGED <<lx_aliases, notLex>>

NextL ==
    \E skipped \in WhitespaceRuns(MaxKeys), item \in {None} \cup {Some(k) : k \in LexKeys} :
        next(skipped, item)

-----------------------------------------------------------------------------
(* The shared scrollback buffer: Arc<Mutex<LogBuffer>>.  Two threads lock  *)
(* it: the main thread (tracing events of run and handle_events, and       *)
(* Api::scroll) and the UI thread (Terminal::render_ref, and the tracing   *)
(* event of its error! call).  Each operation is split into the steps it   *)
(* makes on the buffer while it holds the guard.                           *)

Threads == {"main", "ui"}

\* the operations a thread makes on the buffer
Ops(t) ==
    IF t = "main" THEN {"on_event", "inc_scroll", "dec_scroll"}
    ELSE {"on_event", "render"}

\* the steps made while the MutexGuard is held
Guarded == {"push_back", "follow", "evict", "clamp", "rows", "store", "offset"}

FirstStep(op) ==
    IF op = "on_event" THEN "push_back"
    ELSE IF op = "render" THEN "rows"
    ELSE "clamp"

\* a panic on the main thread unwinds main and ends the process; a panic of
\* the UI task ends that task only
Alive(t) == th_pc[t] # "panicked" /\ th_pc["main"] # "panicked"

\* a lock that does not wait for the holder
CanLockAlways(holder) == TRUE

\* Mutex::lock blocks until no thread holds the guard
CanLock(holder) == holder = None

\* an expect that takes the guard out of a PoisonError
LockResultIntoInner(poisoned) == "guard"

\* .lock().expect("... poisoned!"): the guard, or a panic if the flag is set
LockResult(poisoned) == IF poisoned THEN "panic" ELSE "guard"

InitConc ==
    /\ mtx_holder = None
    /\ mtx_poisoned = FALSE
    /\ mtx_snap = None
    /\ th_pc = [t \in Threads |-> "idle"]
    /\ th_op = [t \in Threads |-> "none"]
    /\ th_res = [t \in Threads |-> "none"]
    /\ th_obs = 0

ParkConc == InitConc

\* thread t starts operation op and comes to its lock() call
call(t, op) ==
    /\ Alive(t)
    /\ th_pc[t] = "idle"
    /\ op \in Ops(t)
    /\ op = "on_event" => pushed < MaxPush
    /\ th_pc' = [th_pc EXCEPT ![t] = "lock"]
    /\ th_op' = [th_op EXCEPT ![t] = op]
    /\ UNCHANGED <<mtx_holder, mtx_poisoned, mtx_snap, th_res, th_obs, lbVars, notConc>>

\* lock().expect(..): takes the guard once it is free; on a poisoned Mutex
\* expect panics and the guard inside the PoisonError is dropped
lock(t) ==
    /\ Alive(t)
    /\ th_pc[t] = "lock"
    /\ CanLock(mtx_holder)
    /\ IF LockResult(mtx_poisoned) = "guard"
       THEN /\ mtx_holder' = Some(t)
            /\ th_pc' = [th_pc EXCEPT ![t] = FirstStep(th_op[t])]
            /\ th_res' = [th_res EXCEPT ![t] = IF mtx_poisoned THEN "poisoned" ELSE "guard"]
       ELSE /\ mtx_holder' = None
            /\ th_pc' = [th_pc EXCEPT ![t] = "panicked"]
            /\ th_res' = [th_res EXCEPT ![t] = "poisoned"]
    /\ UNCHANGED <<mtx_poisoned, mtx_snap, th_op, th_obs, lbVars, notConc>>

\* the end of the statement drops the guard
Unlock(t) ==
    /\ mtx_holder' = None
    /\ th_pc' = [th_pc EXCEPT ![t] = "idle"]
    /\ th_op' = [th_op EXCEPT ![t] = "none"]

\* push_line: self.raw.push_back(..)
push_back(t) ==
    /\ Alive(t)
    /\ th_pc[t] = "push_back"
    /\ raw' = Append(raw, pushed + 1)
    /\ pushed' = pushed + 1
    /\ th_pc' = [th_pc EXCEPT ![t] = "follow"]
    /\ UNCHANGED <<buf_limit, scroll, last_frame_height, lb_pc, last_op, last_arg,
                   t_offset, mtx_holder, mtx_poisoned, mtx_snap, th_op, th_res,
                   th_obs, notConc>>

\* push_line: if self.scroll() != 0 { self.inc_scroll(); }
follow(t) ==
    /\ Alive(t)
    /\ th_pc[t] = "follow"
    /\ scroll' = FollowScroll(scroll, raw, last_frame_height)
    /\ th_pc' = [th_pc EXCEPT ![t] = "evict"]
    /\ UNCHANGED <<buf_limit, raw, pushed, last_frame_height, lb_pc, last_op,
                   last_arg, t_offset, mtx_holder, mtx_poisoned, mtx_snap, th_op,
                   th_res, th_obs, notConc>>

\* push_line: the eviction loop; with buf_limit = 0 it never ends and the
\* guard is never dropped
evict(t) ==
    /\ Alive(t)
    /\ th_pc[t] = "evict"
    /\ raw' = Evict(raw, buf_limit)
    /\ IF buf_limit = 0
       THEN UNCHANGED <<mtx_holder, th_pc, th_op>>
       ELSE Unlock(t)
    /\ UNCHANGED <<buf_limit, scroll, pushed, last_frame_height, lb_pc, last_op,
                   last_arg, t_offset, mtx_poisoned, mtx_snap, th_res, th_obs,
                   notConc>>

\* Api::scroll: inc_scroll() or dec_scroll() under the guard
clamp(t) ==
    /\ Alive(t)
    /\ th_pc[t] = "clamp"
    /\ scroll' = IF th_op[t] = "inc_scroll"
                 THEN clamp_scroll(SaturatingAdd(scroll, 1), raw, last_frame_height)
                 ELSE clamp_scroll(SaturatingSub(scroll, 1), raw, last_frame_height)
    /\ Unlock(t)
    /\ UNCHANGED <<buf_limit, raw, pushed, last_frame_height, lb_pc, last_op,
                   last_arg, t_offset, mtx_poisoned, mtx_snap, th_res, th_obs,
                   notConc>>

\* render_ref: self.rows(content_width) reads every line
render_rows(t, height) ==
    /\ Alive(t)
    /\ th_pc[t] = "rows"
    /\ th_obs' = count(raw)
    /\ last_arg' = height
    /\ th_pc' = [th_pc EXCEPT ![t] = "store"]
    /\ UNCHANGED <<buf_limit, scroll, raw, pushed, last_frame_height, lb_pc,
                   last_op, t_offset, mtx_holder, mtx_poisoned, mtx_snap, th_op,
                   th_res, notConc>>

\* render_ref: self.last_frame_height.store(area.height, Relaxed)
render_store(t) ==
    /\ Alive(t)
    /\ th_pc[t] = "store"
    /\ last_frame_height' = last_arg
    /\ th_pc' = [th_pc EXCEPT ![t] = "offset"]
    /\ UNCHANGED <<buf_limit, scroll, raw, pushed, lb_pc, last_op, last_arg,
                   t_offset, mtx_holder, mtx_poisoned, mtx_snap, th_op, th_res,
                   th_obs, notConc>>

\* render_ref: the TableState offset from count() and scroll(), then the
\* Table is drawn and the guard dropped
render_offset(t) ==
    /\ Alive(t)
    /\ th_pc[t] = "offset"
    /\ t_offset' = TableOffset(raw, last_frame_height, scroll)
    /\ Unlock(t)
    /\ UNCHANGED <<buf_limit, scroll, raw, pushed, last_frame_height, lb_pc,
                   last_op, last_arg, mtx_poisoned, mtx_snap, th_res, th_obs,
                   notConc>>

\* a panic raised while the guard is held (the widget code that render
\* calls under the guard): unwinding drops the guard and poisons the Mutex
abort(t) ==
    /\ Alive(t)
    /\ th_pc[t] \in {"rows", "store", "offset"}
    /\ mtx_holder' = None
    /\ mtx_poisoned' = TRUE
    /\ mtx_snap' = Some(<<raw, scroll, last_frame_height>>)
    /\ th_pc' = [th_pc EXCEPT ![t] = "panicked"]
    /\ UNCHANGED <<th_op, th_res, th_obs, lbVars, notConc>>

NextC ==
    \/ \E t \in Threads, op \in {"on_event", "inc_scroll", "dec_scroll", "render"} :
          call(t, op)
    \/ \E t \in Threads : lock(t)
    \/ \E t \in Threads : push_back(t)
    \/ \E t \in Threads : follow(t)
    \/ \E t \in Threads : evict(t)
    \/ \E t \in Threads : clamp(t)
    \/ \E t \in Threads, height \in 0..MaxHeight : render_rows(t, height)
    \/ \E t \in Threads : render_store(t)
    \/ \E t \in Threads : render_offset(t)
    \/ \E t \in Threads : abort(t)

-----------------------------------------------------------------------------
(* App::run: the main thread's event loop and the UI task it spawns.       *)

MaxEvents == 3     \* at most this many terminal events arrive
MaxFrames == 2     \* at most this many iterations of the main loop

\* crossterm's Event: a key event of any kind, or an event that is no key
KeyEv(ke) == [type |-> "Key", key |-> ke]
TermEvents ==
    {KeyEv(Press(Char("a"))),
     KeyEv(KeyEvent(Char("a"), {}, "Release")),
     KeyEv(Press(<<"Backspace">>)),
     [type |-> "Resize"]}

\* the height the log buffer's area has when a frame is drawn
FrameHeights == {MaxHeight}

\* the capacities cfg.ui.scrollbuffer may give the buffer
LoopCaps == {0, MaxCap}

\* the lines run logs before the loop: debug!, and four times info!
StartupLines == 5

MainEnded == m_pc \in {"returned_ok", "returned_err", "panicked"}

\* the buffer after n push_line calls (buf_limit > 0)
RECURSIVE Logged(_, _)
Logged(st, n) ==
    IF n = 0 THEN st
    ELSE LET q1 == Append(st.raw, st.pushed + 1)
         IN Logged([raw |-> Evict(q1, buf_limit),
                    scroll |-> FollowScroll(st.scroll, q1, last_frame_height),
                    pushed |-> st.pushed + 1], n - 1)

\* n tracing events: LogBufferLayer::on_event pushes a line for each
Log(n) ==
    LET st == Logged([raw |-> raw, scroll |-> scroll, pushed |-> pushed], n)
    IN /\ raw' = st.raw
       /\ scroll' = st.scroll
       /\ pushed' = st.pushed

\* the panic hook and the eyre hook of Tui::install_hooks
Hook ==
    /\ restores' = restores + 1
    /\ acquired' = FALSE

\* a handle_events that appends nothing
DispatchDebugOnly(ev) == "debug"

\* handle_events' match on the event read
DispatchEvent(ev) == IF ev.type = "Key" THEN "append" ELSE "debug"

\* App::new, before any Tui is acquired
LoopIdle ==
    /\ m_pc = "run"
    /\ ui_pc = "unspawned"
    /\ exit = FALSE
    /\ stop_signal = FALSE
    /\ ev_queue = <<>>
    /\ ev_seen = <<>>
    /\ ctx_line = <<>>
    /\ frames = 0
    /\ exit_frame = 0
    /\ released = 0
    /\ restores = 0

\* main: run is given the Tui that Tui::acquire returned
InitLoop == LoopIdle /\ acquired = TRUE

ParkLoop == InitLoop

\* run, up to its loop: the subscriber is installed, five lines are logged
\* and the UI task is spawned.  With buf_limit = 0 the first push_line
\* never returns.
run_start ==
    /\ m_pc = "run"
    /\ IF buf_limit = 0
       THEN /\ m_pc' = "hung"
            /\ lb_pc' = "evict_loop"
            /\ pushed' = pushed + 1
            /\ UNCHANGED <<raw, scroll, ui_pc>>
       ELSE /\ m_pc' = "loop_head"
            /\ ui_pc' = "loop_head"
            /\ Log(StartupLines)
            /\ UNCHANGED lb_pc
    /\ UNCHANGED <<buf_limit, last_frame_height, last_op, last_arg, t_offset,
                   inputVars, exit, stop_signal, ev_queue, ev_seen, ctx_line,
                   frames, exit_frame, acquired, released, restores, notLoop>>

\* while !self.exit.load(Relaxed) { .. }  ui_exit.set(())?;  Ok(())
loop_head ==
    /\ m_pc = "loop_head"
    /\ IF exit
       THEN /\ stop_signal' = TRUE
            /\ m_pc' = "returned_ok"
            /\ UNCHANGED frames
       ELSE /\ frames < MaxFrames
            /\ frames' = frames + 1
            /\ m_pc' = "write_ctx"
            /\ UNCHANGED stop_signal
    /\ UNCHANGED <<lbVars, inputVars, ui_pc, exit, ev_queue, ev_seen, ctx_line,
                   exit_frame, acquired, released, restores, notLoop>>

\* *self.shared_context.write().await = self.create_render_context();
\* the write guard waits for the read guard render_frame holds
write_ctx ==
    /\ m_pc = "write_ctx"
    /\ ui_pc # "draw"
    /\ ctx_line' = ToDisplayString(motion)
    /\ m_pc' = "poll"
    /\ UNCHANGED <<lbVars, inputVars, ui_pc, exit, stop_signal, ev_queue, ev_seen,
                   frames, exit_frame, acquired, released, restores, notLoop>>

\* handle_events: while event::poll(Duration::from_millis(0))? { .. } Ok(())
poll(io) ==
    /\ m_pc = "poll"
    /\ IF io = "err"
       THEN /\ m_pc' = "returned_err"
            /\ Hook
       ELSE /\ m_pc' = IF ev_queue # <<>> THEN "read" ELSE "process_user_input"
            /\ UNCHANGED <<acquired, restores>>
    /\ UNCHANGED <<lbVars, inputVars, ui_pc, exit, stop_signal, ev_queue, ev_seen,
                   ctx_line, frames, exit_frame, released, notLoop>>

\* handle_events: match event::read()? { Event::Key(key_event) =>
\* self.input_handler.append(key_event), e => debug!(..) }
read(io) ==
    /\ m_pc = "read"
    /\ IF io = "err"
       THEN /\ m_pc' = "returned_err"
            /\ Hook
            /\ UNCHANGED <<ev_queue, inputVars, raw, scroll, pushed>>
       ELSE /\ m_pc' = "poll"
            /\ ev_queue' = Tail(ev_queue)
            /\ IF DispatchEvent(Head(ev_queue)) = "append"
               THEN /\ motion' = AppendEvent(motion, Head(ev_queue).key)
                    /\ hist' = Append(hist, [call |-> "append",
                                             ev |-> Head(ev_queue).key])
                    /\ UNCHANGED <<raw, scroll, pushed>>
               ELSE /\ Log(1)
                    /\ UNCHANGED inputVars
            /\ UNCHANGED <<acquired, restores>>
    /\ UNCHANGED <<buf_limit, last_frame_height, lb_pc, last_op, last_arg, t_offset,
                   ui_pc, exit, stop_signal, ev_seen, ctx_line, frames, exit_frame,
                   released, notLoop>>

\* process_user_input is todo!(): it panics, the panic hook runs and the
\* panic unwinds run and main
process_user_input ==
    /\ m_pc = "process_user_input"
    /\ m_pc' = "panicked"
    /\ Hook
    /\ UNCHANGED <<lbVars, inputVars, ui_pc, exit, stop_signal, ev_queue, ev_seen,
                   ctx_line, frames, exit_frame, released, notLoop>>

\* the consumer of the recorded motion, which performs Api::exit (or
\* nothing) and returns Ok
evaluate_input(request) ==
    /\ m_pc = "process_user_input"
    /\ m_pc' = "loop_head"
    /\ IF request = "exit"
       THEN /\ exit' = TRUE
            /\ exit_frame' = frames
       ELSE UNCHANGED <<exit, exit_frame>>
    /\ UNCHANGED <<lbVars, inputVars, ui_pc, stop_signal, ev_queue, ev_seen,
                   ctx_line, frames, acquired, released, restores, notLoop>>

\* the terminal delivers an event
arrive(ev) ==
    /\ m_pc \notin {"run", "hung"}
    /\ ~MainEnded
    /\ Len(ev_seen) < MaxEvents
    /\ ev_queue' = Append(ev_queue, ev)
    /\ ev_seen' = Append(ev_seen, ev)
    /\ UNCHANGED <<lbVars, inputVars, m_pc, ui_pc, exit, stop_signal, ctx_line,
                   frames, exit_frame, acquired, released, restores, notLoop>>

\* while !thread_local_stop.initialized() { .. }  t.release().unwrap();
ui_head ==
    /\ ui_pc = "loop_head"
    /\ IF stop_signal
       THEN /\ ui_pc' = "done"
            /\ released' = released + 1
            /\ Hook
       ELSE /\ ui_pc' = "read"
            /\ UNCHANGED <<released, acquired, restores>>
    /\ UNCHANGED <<lbVars, inputVars, m_pc, exit, stop_signal, ev_queue, ev_seen,
                   ctx_line, frames, exit_frame, notLoop>>

\* render_frame: let context = ctx.read().await;
ui_read ==
    /\ ui_pc = "read"
    /\ ui_pc' = "draw"
    /\ UNCHANGED <<lbVars, inputVars, m_pc, exit, stop_signal, ev_queue, ev_seen,
                   ctx_line, frames, exit_frame, acquired, released, restores,
                   notLoop>>

\* render_frame: terminal.draw(..)?, and the error! of the UI task's loop
ui_draw(io, height) ==
    /\ ui_pc = "draw"
    /\ ui_pc' = "loop_head"
    /\ IF io = "err"
       THEN /\ pushed < MaxPush
            /\ Log(1)
            /\ UNCHANGED <<last_frame_height, t_offset>>
       ELSE /\ last_frame_height' = height
            /\ t_offset' = TableOffset(raw, height, scroll)
            /\ UNCHANGED <<raw, scroll, pushed>>
    /\ UNCHANGED <<buf_limit, lb_pc, last_op, last_arg, inputVars, m_pc, exit,
                   stop_signal, ev_queue, ev_seen, ctx_line, frames, exit_frame,
                   acquired, released, restores, notLoop>>

\* main has returned or panicked and the runtime is dropped: a task that
\* is suspended at an await is dropped there and runs no further
shutdown_cancel ==
    /\ MainEnded
    /\ ui_pc = "read"
    /\ ui_pc' = "cancelled"
    /\ UNCHANGED <<lbVars, inputVars, m_pc, exit, stop_signal, ev_queue, ev_seen,
                   ctx_line, frames, exit_frame, acquired, released, restores,
                   notLoop>>

\* what run does whatever process_user_input is
LoopSteps ==
    \/ run_start
    \/ loop_head
    \/ write_ctx
    \/ \E io \in {"ok", "err"} : poll(io)
    \/ \E io \in {"ok", "err"} : read(io)
    \/ \E ev \in TermEvents : arrive(ev)
    \/ ui_head
    \/ ui_read
    \/ \E io \in {"ok", "err"}, height \in FrameHeights : ui_draw(io, height)
    \/ shutdown_cancel

NextLoop ==
    \/ LoopSteps
    \/ process_user_input

NextExit ==
    \/ LoopSteps
    \/ \E request \in {"none", "exit"} : evaluate_input(request)

-----------------------------------------------------------------------------
(* Tui: the handle to the terminal, guarded by the static TERMINAL_ACQUIRED *)
(* (the variable acquired).  Two callers call acquire and release; acquire  *)
(* is split at the points where another caller's step can fall between.    *)

MaxTuiCalls == 4   \* at most this many calls of acquire and release

Callers == {"c1", "c2"}

\* an eyre Report is built (by bail! or by ?): the installed hook runs
\* restore and set_acquired(false); with no hook installed nothing happens
ReportBuilt ==
    IF hooks_set
    THEN /\ term_raw' = FALSE
         /\ restores' = restores + 1
         /\ acquired' = FALSE
    ELSE UNCHANGED <<term_raw, restores, acquired>>

\* acquire returns Err to caller t
AcquireErr(t) ==
    /\ tu_pc' = [tu_pc EXCEPT ![t] = "idle"]
    /\ tu_res' = [tu_res EXCEPT ![t] = "err"]

\* eyre::set_hook: Err(InstallError) once a hook is installed
SetHook(installed) == IF installed THEN "err" ELSE "ok"

InitTui ==
    /\ hooks_set = FALSE
    /\ term_raw = FALSE
    /\ tu_pc = [t \in Callers |-> "idle"]
    /\ tu_res = [t \in Callers |-> "none"]
    /\ tu_handles = [t \in Callers |-> 0]
    /\ tu_free = [t \in Callers |-> FALSE]
    /\ tu_io = [t \in Callers |-> FALSE]
    /\ tu_calls = 0

ParkTui == InitTui

\* acquire: if TERMINAL_ACQUIRED.load(SeqCst) { bail!(..) }
acquire_load(t) ==
    /\ tu_pc[t] = "idle"
    /\ tu_calls < MaxTuiCalls
    /\ tu_calls' = tu_calls + 1
    /\ tu_free' = [u \in Callers |->
                      IF u = t
                      THEN /\ \A v \in Callers : tu_handles[v] = 0
                           /\ \A v \in Callers : tu_pc[v] = "idle"
                      ELSE tu_free[u] /\ tu_pc[u] = "idle"]
    /\ tu_io' = [tu_io EXCEPT ![t] = FALSE]
    /\ IF acquired
       THEN /\ ReportBuilt
            /\ AcquireErr(t)
       ELSE /\ tu_pc' = [tu_pc EXCEPT ![t] = "install_hooks"]
            /\ tu_res' = [tu_res EXCEPT ![t] = "none"]
            /\ UNCHANGED <<term_raw, restores, acquired>>
    /\ UNCHANGED <<hooks_set, tu_handles, released, notTui>>

\* acquire: Self::install_hooks()?
acquire_hooks(t) ==
    /\ tu_pc[t] = "install_hooks"
    /\ IF SetHook(hooks_set) = "ok"
       THEN /\ hooks_set' = TRUE
            /\ tu_pc' = [tu_pc EXCEPT ![t] = "enter"]
            /\ UNCHANGED <<tu_res, term_raw, restores, acquired>>
       ELSE /\ ReportBuilt
            /\ AcquireErr(t)
            /\ UNCHANGED hooks_set
    /\ UNCHANGED <<tu_handles, tu_free, tu_io, tu_calls, released, notTui>>

\* acquire: execute!(stdout(), EnterAlternateScreen)?; enable_raw_mode()?;
\* ratatui::Terminal::new(..)?
acquire_enter(t, io) ==
    /\ tu_pc[t] = "enter"
    /\ IF io = "err"
       THEN /\ ReportBuilt
            /\ AcquireErr(t)
            /\ tu_io' = [tu_io EXCEPT ![t] = TRUE]
       ELSE /\ term_raw' = TRUE
            /\ tu_pc' = [tu_pc EXCEPT ![t] = "set_acquired"]
            /\ UNCHANGED <<tu_res, tu_io, restores, acquired>>
    /\ UNCHANGED <<hooks_set, tu_handles, tu_free, tu_calls, released, notTui>>

\* acquire: Self::set_acquired(true); Ok(Tui { term })
acquire_set(t) ==
    /\ tu_pc[t] = "set_acquired"
    /\ acquired' = TRUE
    /\ tu_handles' = [tu_handles EXCEPT ![t] = @ + 1]
    /\ tu_pc' = [tu_pc EXCEPT ![t] = "idle"]
    /\ tu_res' = [tu_res EXCEPT ![t] = "ok"]
    /\ UNCHANGED <<hooks_set, term_raw, tu_free, tu_io, tu_calls, restores,
                   released, notTui>>

\* release(self): Self::restore()?; Self::set_acquired(false); Ok(())
release(t) ==
    /\ tu_pc[t] = "idle"
    /\ tu_handles[t] > 0
    /\ tu_calls < MaxTuiCalls
    /\ tu_calls' = tu_calls + 1
    /\ tu_handles' = [tu_handles EXCEPT ![t] = @ - 1]
    /\ term_raw' = FALSE
    /\ restores' = restores + 1
    /\ acquired' = FALSE
    /\ released' = released + 1
    /\ UNCHANGED <<hooks_set, tu_pc, tu_res, tu_free, tu_io, notTui>>

NextT ==
    \/ \E t \in Callers : acquire_load(t)
    \/ \E t \in Callers : acquire_hooks(t)
    \/ \E t \in Callers, io \in {"ok", "err"} : acquire_enter(t, io)
    \/ \E t \in Callers : acquire_set(t)
    \/ \E t \in Callers : release(t)

-----------------------------------------------------------------------------
(* The scroll and viewport arithmetic of LogBuffer on the count of lines    *)
(* alone, so that counts, heights and offsets at the ends of the u16 range  *)
(* can be reached: the buffer is a count, a recorded height and an offset.  *)

MaxCount == 2      \* counts range over 0..MaxCount and the largest ones
MaxArithOps == 2   \* at most this many operations

\* the counts a buffer can hold: buf_limit <= u16::MAX keeps at most
\* u16::MAX - 1 lines
CountEdge == (0..MaxCount) \cup {U16Max - 2, U16Max - 1}

\* u16 values at both ends of the range
U16Edge == (0..MaxScrollArg) \cup {U16Max - 1, U16Max}

ArithState == [n |-> ar_n, h |-> ar_h, s |-> ar_s]

\* scroll never exceeds count + 2, saturated: every clamp bound is at most
\* that, and the count of a buffer never falls
InitArith ==
    /\ ar_n \in CountEdge
    /\ ar_h \in U16Edge
    /\ ar_s \in {x \in U16Edge : x <= SaturatingAdd(ar_n, 2)}
    /\ ar_old = [n |-> ar_n, h |-> ar_h, s |-> ar_s]
    /\ ar_op = "new"
    /\ ar_arg = 0
    /\ ar_off = 0
    /\ ar_steps = 0

ParkArith ==
    /\ ar_n = 0
    /\ ar_h = 0
    /\ ar_s = 0
    /\ ar_old = [n |-> 0, h |-> 0, s |-> 0]
    /\ ar_op = "new"
    /\ ar_arg = 0
    /\ ar_off = 0
    /\ ar_steps = 0

\* what every operation records
ArithStep(op, arg) ==
    /\ ar_steps < MaxArithOps
    /\ ar_steps' = ar_steps + 1
    /\ ar_old' = ArithState
    /\ ar_op' = op
    /\ ar_arg' = arg
    /\ UNCHANGED notArith

ar_set_scroll(val) ==
    /\ ArithStep("set_scroll", val)
    /\ ar_s' = Clamp(val, 0, ScrollBoundOf(ar_n, ar_h))
    /\ UNCHANGED <<ar_n, ar_h, ar_off>>

ar_inc_scroll ==
    /\ ArithStep("inc_scroll", 0)
    /\ ar_s' = Clamp(SaturatingAdd(ar_s, 1), 0, ScrollBoundOf(ar_n, ar_h))
    /\ UNCHANGED <<ar_n, ar_h, ar_off>>

ar_dec_scroll ==
    /\ ArithStep("dec_scroll", 0)
    /\ ar_s' = Clamp(SaturatingSub(ar_s, 1), 0, ScrollBoundOf(ar_n, ar_h))
    /\ UNCHANGED <<ar_n, ar_h, ar_off>>

ar_render_ref(height) ==
    /\ ArithStep("render", height)
    /\ ar_h' = height
    /\ ar_off' = TableOffsetOf(ar_n, height, ar_s)
    /\ UNCHANGED <<ar_n, ar_s>>

NextAr ==
    \/ \E val \in U16Edge : ar_set_scroll(val)
    \/ ar_inc_scroll
    \/ ar_dec_scroll
    \/ \E height \in U16Edge : ar_render_ref(height)

-----------------------------------------------------------------------------
(* The two locks of App::run: the tokio RwLock around the RenderContext     *)
(* ("ctx"; the main thread writes it, the UI task reads it) and the std     *)
(* Mutex around the LogBuffer ("buf").  The main thread follows run: the    *)
(* tracing events of its start, the spawn of the UI task, then the loop.    *)

MaxLockOps == 2    \* at most this many events and scroll commands in the loop
MaxRenders == 2    \* at most this many render_frame calls

\* a panic of the main thread unwinds main and ends the process
ProcessAlive == k_main # "panicked"

\* the UI task exists and has not panicked
UiAlive == ProcessAlive /\ k_ui \notin {"unspawned", "panicked"}

\* no thread holds lock l
Free(l) == \A t \in Threads : l \notin k_held[t]

\* thread t, holding the guards in held, comes to its call for lock l
Request(t, l, held) ==
    /\ k_pc' = [k_pc EXCEPT ![t] = IF l = "ctx" THEN "want_ctx" ELSE "want_buf"]
    /\ k_waited' = [k_waited EXCEPT ![t] = FALSE]
    /\ k_edges' = [k_edges EXCEPT ![t] = @ \cup {<<h, l>> : h \in held}]

InitLock ==
    /\ k_main = "startup"
    /\ k_ui = "unspawned"
    /\ k_pc = [t \in Threads |-> "idle"]
    /\ k_op = [t \in Threads |-> "none"]
    /\ k_held = [t \in Threads |-> {}]
    /\ k_waited = [t \in Threads |-> FALSE]
    /\ k_edges = [t \in Threads |-> {}]
    /\ k_logs = 0
    /\ k_ops = 0
    /\ k_renders = 0
    /\ k_ctx_set = FALSE
    /\ k_poisoned = FALSE

ParkLock == InitLock

\* a tracing event on the main thread comes to on_event's lock(): one of the
\* debug!/info! lines at the start of run, or the debug! of handle_events
\* for an event that is no key event
k_log ==
    /\ ProcessAlive
    /\ k_pc["main"] = "idle"
    /\ \/ k_main = "startup" /\ k_logs < StartupLines
       \/ k_main = "events" /\ k_ops < MaxLockOps
    /\ k_op' = [k_op EXCEPT !["main"] = "on_event"]
    /\ k_ops' = IF k_main = "events" THEN k_ops + 1 ELSE k_ops
    /\ Request("main", "buf", k_held["main"])
    /\ UNCHANGED <<k_main, k_ui, k_held, k_logs, k_renders, k_ctx_set,
                   k_poisoned, notLock>>

\* tokio::spawn of the UI task, after the lines of the start are logged
k_spawn ==
    /\ ProcessAlive
    /\ k_pc["main"] = "idle"
    /\ k_main = "startup"
    /\ k_logs = StartupLines
    /\ k_main' = "loop_head"
    /\ k_ui' = "loop"
    /\ UNCHANGED <<k_pc, k_op, k_held, k_waited, k_edges, k_logs, k_ops,
                   k_renders, k_ctx_set, k_poisoned, notLock>>

\* *self.shared_context.write().await = ..: the main thread comes to write()
k_write_ctx ==
    /\ ProcessAlive
    /\ k_pc["main"] = "idle"
    /\ k_main = "loop_head"
    /\ k_op' = [k_op EXCEPT !["main"] = "write_ctx"]
    /\ Request("main", "ctx", k_held["main"])
    /\ UNCHANGED <<k_main, k_ui, k_held, k_logs, k_ops, k_renders, k_ctx_set,
                   k_poisoned, notLock>>

\* render_frame: the UI task comes to ctx.read()
k_render_frame ==
    /\ UiAlive
    /\ k_pc["ui"] = "idle"
    /\ k_ui = "loop"
    /\ k_renders < MaxRenders
    /\ k_op' = [k_op EXCEPT !["ui"] = "render_frame"]
    /\ Request("ui", "ctx", k_held["ui"])
    /\ UNCHANGED <<k_main, k_ui, k_held, k_logs, k_ops, k_renders, k_ctx_set,
                   k_poisoned, notLock>>

\* a request finds its lock held and the thread waits
k_wait(t) ==
    /\ IF t = "ui" THEN UiAlive ELSE ProcessAlive
    /\ k_pc[t] \in {"want_ctx", "want_buf"}
    /\ ~Free(IF k_pc[t] = "want_ctx" THEN "ctx" ELSE "buf")
    /\ ~k_waited[t]
    /\ k_waited' = [k_waited EXCEPT ![t] = TRUE]
    /\ UNCHANGED <<k_main, k_ui, k_pc, k_op, k_held, k_edges, k_logs, k_ops,
                   k_renders, k_ctx_set, k_poisoned, notLock>>

\* write().await or read().await returns its guard: one writer and one
\* reader exist, so each waits for the other's guard only
k_grant_ctx(t) ==
    /\ IF t = "ui" THEN UiAlive ELSE ProcessAlive
    /\ k_pc[t] = "want_ctx"
    /\ Free("ctx")
    /\ k_held' = [k_held EXCEPT ![t] = @ \cup {"ctx"}]
    /\ k_pc' = [k_pc EXCEPT ![t] = "in_ctx"]
    /\ UNCHANGED <<k_main, k_ui, k_op, k_waited, k_edges, k_logs, k_ops,
                   k_renders, k_ctx_set, k_poisoned, notLock>>

\* Terminal::render_ref under the read guard: if let Some(tb) =
\* &ctx.text_buffer { tb.lock() .. }; the default context has no buffer
k_render_ref ==
    /\ UiAlive
    /\ k_pc["ui"] = "in_ctx"
    /\ IF k_ctx_set
       THEN Request("ui", "buf", k_held["ui"])
       ELSE /\ k_pc' = [k_pc EXCEPT !["ui"] = "drawn"]
            /\ UNCHANGED <<k_waited, k_edges>>
    /\ UNCHANGED <<k_main, k_ui, k_op, k_held, k_logs, k_ops, k_renders,
                   k_ctx_set, k_poisoned, notLock>>

\* the end of the statement (main) or of render_frame (UI) drops the
\* context guard; draw may have returned an io error, which the UI logs
k_release_ctx(t, io) ==
    /\ IF t = "ui" THEN UiAlive ELSE ProcessAlive
    /\ k_pc[t] = IF t = "ui" THEN "drawn" ELSE "in_ctx"
    /\ t = "main" => io = "ok"
    /\ k_held' = [k_held EXCEPT ![t] = @ \ {"ctx"}]
    /\ k_pc' = [k_pc EXCEPT ![t] = "idle"]
    /\ k_op' = [k_op EXCEPT ![t] = "none"]
    /\ IF t = "main"
       THEN /\ k_ctx_set' = TRUE
            /\ k_main' = "events"
            /\ UNCHANGED <<k_ui, k_renders>>
       ELSE /\ k_renders' = k_renders + 1
            /\ k_ui' = IF io = "err" THEN "error" ELSE "loop"
            /\ UNCHANGED <<k_ctx_set, k_main>>
    /\ UNCHANGED <<k_waited, k_edges, k_logs, k_ops, k_poisoned, notLock>>

\* error!(.., "UI Thread Error") after render_frame returned Err: the UI
\* task comes to on_event's lock()
k_ui_error ==
    /\ UiAlive
    /\ k_pc["ui"] = "idle"
    /\ k_ui = "error"
    /\ k_op' = [k_op EXCEPT !["ui"] = "on_event"]
    /\ Request("ui", "buf", k_held["ui"])
    /\ UNCHANGED <<k_main, k_ui, k_held, k_logs, k_ops, k_renders, k_ctx_set,
                   k_poisoned, notLock>>

\* lock().expect(..) returns: the guard, or for a poisoned Mutex a panic
\* that drops every guard the thread holds
k_lock(t) ==
    /\ IF t = "ui" THEN UiAlive ELSE ProcessAlive
    /\ k_pc[t] = "want_buf"
    /\ Free("buf")
    /\ IF LockResult(k_poisoned) = "guard"
       THEN /\ k_held' = [k_held EXCEPT ![t] = @ \cup {"buf"}]
            /\ k_pc' = [k_pc EXCEPT ![t] = "in_buf"]
            /\ UNCHANGED <<k_main, k_ui>>
       ELSE /\ k_held' = [k_held EXCEPT ![t] = {}]
            /\ k_pc' = [k_pc EXCEPT ![t] = "idle"]
            /\ k_main' = IF t = "main" THEN "panicked" ELSE k_main
            /\ k_ui' = IF t = "ui" THEN "panicked" ELSE k_ui
    /\ UNCHANGED <<k_op, k_waited, k_edges, k_logs, k_ops, k_renders,
                   k_ctx_set, k_poisoned, notLock>>

\* an unlock that keeps the guard
k_unlock_keep(t) ==
    /\ IF t = "ui" THEN UiAlive ELSE ProcessAlive
    /\ k_pc[t] = "in_buf"
    /\ k_pc' = [k_pc EXCEPT ![t] = IF k_op[t] = "render_frame" THEN "drawn" ELSE "idle"]
    /\ k_logs' = IF t = "main" /\ k_main = "startup" THEN k_logs + 1 ELSE k_logs
    /\ k_ui' = IF t = "ui" /\ k_op[t] = "on_event" THEN "loop" ELSE k_ui
    /\ UNCHANGED <<k_main, k_op, k_held, k_waited, k_edges, k_ops, k_renders,
                   k_ctx_set, k_poisoned, notLock>>

\* the operation under the guard ends and the guard is dropped: push_line
\* (which with buf_limit = 0 stays in its loop and keeps the guard),
\* inc_scroll or dec_scroll, or the LogBuffer's render
k_unlock(t) ==
    /\ IF t = "ui" THEN UiAlive ELSE ProcessAlive
    /\ k_pc[t] = "in_buf"
    /\ IF k_op[t] = "on_event" /\ buf_limit = 0
       THEN /\ k_pc' = [k_pc EXCEPT ![t] = "evict_loop"]
            /\ UNCHANGED <<k_held, k_logs, k_ui>>
       ELSE /\ k_held' = [k_held EXCEPT ![t] = @ \ {"buf"}]
            /\ k_pc' = [k_pc EXCEPT ![t] =
                           IF k_op[t] = "render_frame" THEN "drawn" ELSE "idle"]
            /\ k_logs' = IF t = "main" /\ k_main = "startup"
                         THEN k_logs + 1 ELSE k_logs
            /\ k_ui' = IF t = "ui" /\ k_op[t] = "on_event" THEN "loop" ELSE k_ui
    /\ UNCHANGED <<k_main, k_op, k_waited, k_edges, k_ops, k_renders,
                   k_ctx_set, k_poisoned, notLock>>

\* a panic in the widget code that render calls under the guard: unwinding
\* drops both guards and poisons the Mutex, and the UI task ends
k_abort ==
    /\ UiAlive
    /\ k_pc["ui"] = "in_buf"
    /\ k_op["ui"] = "render_frame"
    /\ k_held' = [k_held EXCEPT !["ui"] = {}]
    /\ k_poisoned' = TRUE
    /\ k_ui' = "panicked"
    /\ k_pc' = [k_pc EXCEPT !["ui"] = "idle"]
    /\ UNCHANGED <<k_main, k_op, k_waited, k_edges, k_logs, k_ops, k_renders,
                   k_ctx_set, notLock>>

\* handle_events: event::poll returns false
k_poll_end ==
    /\ ProcessAlive
    /\ k_pc["main"] = "idle"
    /\ k_main = "events"
    /\ k_main' = "process"
    /\ UNCHANGED <<k_ui, k_pc, k_op, k_held, k_waited, k_edges, k_logs, k_ops,
                   k_renders, k_ctx_set, k_poisoned, notLock>>

\* Api::scroll, the scroll command of the input module: the main thread
\* comes to its lock()
k_scroll ==
    /\ ProcessAlive
    /\ k_pc["main"] = "idle"
    /\ k_main = "process"
    /\ k_ops < MaxLockOps
    /\ k_ops' = k_ops + 1
    /\ k_op' = [k_op EXCEPT !["main"] = "scroll"]
    /\ Request("main", "buf", k_held["main"])
    /\ UNCHANGED <<k_main, k_ui, k_held, k_logs, k_renders, k_ctx_set,
                   k_poisoned, notLock>>

\* process_user_input: todo!()
k_process_user_input ==
    /\ ProcessAlive
    /\ k_pc["main"] = "idle"
    /\ k_main = "process"
    /\ k_main' = "panicked"
    /\ UNCHANGED <<k_ui, k_pc, k_op, k_held, k_waited, k_edges, k_logs, k_ops,
                   k_renders, k_ctx_set, k_poisoned, notLock>>

MainSteps ==
    \/ k_log
    \/ k_spawn
    \/ k_write_ctx
    \/ k_wait("main")
    \/ k_grant_ctx("main")
    \/ k_release_ctx("main", "ok")
    \/ k_lock("main")
    \/ k_unlock("main")
    \/ k_poll_end
    \/ k_scroll
    \/ k_process_user_input

UiSteps ==
    \/ k_render_frame
    \/ k_wait("ui")
    \/ k_grant_ctx("ui")
    \/ k_render_ref
    \/ \E io \in {"ok", "err"} : k_release_ctx("ui", io)
    \/ k_ui_error
    \/ k_lock("ui")
    \/ k_unlock("ui")
    \/ k_abort

NextK == MainSteps \/ UiSteps

-----------------------------------------------------------------------------
(* The specifications *)

Init == InitLB /\ ParkWrap /\ ParkAlias /\ ParkInput /\ ParkLex /\ ParkConc /\ ParkLoop /\ ParkTui /\ ParkArith /\ ParkLock
Spec == Init /\ [][Next]_vars

InitW == ParkLB /\ InitWrap /\ ParkAlias /\ ParkInput /\ ParkLex /\ ParkConc /\ ParkLoop /\ ParkTui /\ ParkArith /\ ParkLock
SpecWrap == InitW /\ [][NextW]_vars

InitA == ParkLB /\ ParkWrap /\ InitAlias /\ ParkInput /\ ParkLex /\ ParkConc /\ ParkLoop /\ ParkTui /\ ParkArith /\ ParkLock
SpecAlias == InitA /\ [][NextA]_vars

InitI == ParkLB /\ ParkWrap /\ ParkAlias /\ InitInput /\ ParkLex /\ ParkConc /\ ParkLoop /\ ParkTui /\ ParkArith /\ ParkLock
SpecInput == InitI /\ [][NextI]_vars

InitL == ParkLB /\ ParkWrap /\ ParkAlias /\ ParkInput /\ InitLex /\ ParkConc /\ ParkLoop /\ ParkTui /\ ParkArith /\ ParkLock
SpecLex == InitL /\ [][NextL]_vars

InitC == InitLB /\ ParkWrap /\ ParkAlias /\ ParkInput /\ ParkLex /\ InitConc /\ ParkLoop /\ ParkTui /\ ParkArith /\ ParkLock
SpecConc == InitC /\ [][NextC]_vars

InitM == InitLB /\ buf_limit \in LoopCaps /\ ParkWrap /\ ParkAlias /\ InitInput /\ ParkLex /\ ParkConc /\ InitLoop /\ ParkTui /\ ParkArith /\ ParkLock
SpecLoop == InitM /\ [][NextLoop]_vars
SpecExit == InitM /\ [][NextExit]_vars

InitT == ParkLB /\ ParkWrap /\ ParkAlias /\ ParkInput /\ ParkLex /\ ParkConc /\ LoopIdle /\ acquired = FALSE /\ InitTui /\ ParkArith /\ ParkLock
SpecTui == InitT /\ [][NextT]_vars

InitAr == ParkLB /\ ParkWrap /\ ParkAlias /\ ParkInput /\ ParkLex /\ ParkConc /\ ParkLoop /\ ParkTui /\ InitArith /\ ParkLock
SpecArith == InitAr /\ [][NextAr]_vars

\* the scheduler runs every thread that can take a step
InitK == InitLB /\ buf_limit \in LoopCaps /\ ParkWrap /\ ParkAlias /\ ParkInput /\ ParkLex /\ ParkConc /\ ParkLoop /\ ParkTui /\ ParkArith /\ InitLock
SpecLock == InitK /\ [][NextK]_vars /\ WF_vars(MainSteps) /\ WF_vars(UiSteps)

-----------------------------------------------------------------------------
(* Properties of LogBuffer, under Spec *)

\* max(0, len(lines) + 2 - last_viewport_height), in unbounded integers
ViewBound(n, h) == Max(0, n + 2 - h)

\* C1: whenever push_line has returned (no eviction loop is running), the
\* number of stored lines is at most the capacity.
C1_CountWithinCapacity == lb_pc = "idle" => count(raw) <= buf_limit

\* C1's case: a push_line that returned after evicting, leaving a full buffer
C1_Witness ==
    /\ last_op = "push_line"
    /\ lb_pc = "idle"
    /\ buf_limit >= 2
    /\ count(raw) = buf_limit - 1
    /\ pushed > count(raw)

\* C2: a push_line that returns leaves a scroll offset of 0 at 0 and turns an
\* offset s > 0 into exactly s + 1.
C2_AutoFollow ==
    [][(lb_pc = "idle" /\ last_op' = "push_line" /\ lb_pc' = "idle")
          => IF scroll = 0 THEN scroll' = 0 ELSE scroll' = scroll + 1]_vars

\* C3: in every reachable state
\* 0 <= scroll_offset <= max(0, len(lines) + 2 - last_viewport_height).
C3_ScrollWithinBound ==
    /\ 0 <= scroll
    /\ scroll <= ViewBound(count(raw), last_frame_height)

\* C4: after set_scroll(u16::MAX) followed by render(w, h), the scroll offset
\* that render uses is at most max(0, count + 2 - h).
C4_ClampedAtRender ==
    [][(last_op = "set_scroll" /\ last_arg = U16Max /\ last_op' = "render")
          => scroll' <= ViewBound(count(raw'), last_arg')]_vars

-----------------------------------------------------------------------------
(* Properties of the wrap loop and line_height, under SpecWrap *)

\* the text of a Line: its spans' contents, concatenated
RECURSIVE LineText(_)
LineText(line) ==
    IF line = <<>> THEN <<>> ELSE Head(line).content \o LineText(Tail(line))

\* the text of a Text: its Lines' texts, concatenated
RECURSIVE TextText(_)
TextText(text) ==
    IF text = <<>> THEN <<>> ELSE LineText(Head(text)) \o TextText(Tail(text))

\* the offsets at which the parts of a sequence of strings end
RECURSIVE EndOffsets(_, _)
EndOffsets(parts, from) ==
    IF parts = <<>> THEN {}
    ELSE {from + Len(Head(parts))}
         \cup EndOffsets(Tail(parts), from + Len(Head(parts)))

\* the offsets at which an extended grapheme cluster of s ends: those not
\* followed by a combining mark
ClusterEnds(s) ==
    {i \in 1..Len(s) : i = Len(s) \/ ~IsExtend(s[i + 1])}

\* the extended grapheme clusters of s, as a set
ClustersOf(s) ==
    {SubSeq(s,
            1 + (CHOOSE b \in {0} \cup ClusterEnds(s) :
                    /\ b < e
                    /\ \A c \in ClusterEnds(s) : c < e => c <= b),
            e) : e \in ClusterEnds(s)}

\* every grapheme cluster of every span is 1 or 2 columns wide
GraphemeWidths1or2(line) ==
    \A i \in DOMAIN line :
        \A g \in ClustersOf(line[i].content) : StrWidth(g) \in {1, 2}

C6_EmptyLineOneSubLine ==
    w_pc = "done" =>
        /\ Len(w_text) >= 1
        /\ (w_width > 0 /\ LineText(w_line) = <<>>) =>
               (Len(w_text) = 1 /\ LineText(w_text[1]) = <<>>)

\* C6's case: an empty line (no span, or empty spans only) wrapped at width > 0
C6_Witness ==
    /\ w_pc = "done"
    /\ w_width > 0
    /\ LineText(w_line) = <<>>
    /\ Len(w_text) = 1

\* C7: the row height is (visual_width / max_width) + 1 when max_width > 0
\* and exactly 1 when max_width = 0.
C7_RowHeight ==
    w_pc = "done" =>
        w_height = IF w_width > 0
                   THEN (LineWidth(w_line) \div w_width) + 1
                   ELSE 1

-----------------------------------------------------------------------------
(* Properties of CommandAliases, under SpecAlias *)

\* the overrides whose name is `name` in some letter case
OverridesFor(map, name) ==
    {n \in DOMAIN map : to_lowercase(n) = to_lowercase(name)}

\* C8: get(name) returns an override given for that name in any letter case,
\* else the built-in default of the lowercased name, else none.
C8_AliasResolution ==
    a_pc = "done" =>
        IF OverridesFor(aliases, a_key) # {}
        THEN a_res \in {Some(aliases[n]) : n \in OverridesFor(aliases, a_key)}
        ELSE a_res = BuiltinAlias(to_lowercase(a_key))

-----------------------------------------------------------------------------
(* Properties of InputHandler, under SpecInput *)

IsChar(ke) == ke.code[1] = "Char"
IsCtrlChar(ke) == IsChar(ke) /\ "CONTROL" \in ke.modifiers

\* C9: append(Esc) empties the buffer, append(Backspace) removes exactly the
\* last event (nothing from an empty buffer), any other append adds the event
\* at the end and keeps the earlier ones; the buffer holds no Esc and no
\* Backspace.
C9_AppendContract ==
    [][/\ \A ev \in KeyEvents :
            hist' = Append(hist, [call |-> "append", ev |-> ev]) =>
                CASE ev.code = <<"Esc">> -> motion' = <<>>
                  [] ev.code = <<"Backspace">> ->
                        /\ Len(motion') = Max(Len(motion) - 1, 0)
                        /\ \A i \in DOMAIN motion' : motion'[i] = motion[i]
                  [] OTHER ->
                        /\ Len(motion') = Len(motion) + 1
                        /\ motion'[Len(motion')] = ev
                        /\ \A i \in DOMAIN motion : motion'[i] = motion[i]
       /\ \A i \in DOMAIN motion' :
            motion'[i].code \notin {<<"Esc">>, <<"Backspace">>}]_vars

\* C9's case: a Backspace took the last of two recorded events, after an
\* Enter and a function key were recorded like any other event
C9_Witness ==
    /\ Len(hist) = 4
    /\ hist[4].call = "append"
    /\ hist[4].ev.code = <<"Backspace">>
    /\ Len(motion) = 2
    /\ motion[1].code = <<"Enter">>
    /\ motion[2].code = <<"F1">>

\* the place in the display string of the glyph of the i-th event
GlyphPos(m, i) ==
    Cardinality({j \in 1..i : IsChar(m[j])})
        + Cardinality({j \in 1..i : IsCtrlChar(m[j])})

\* C10: the display string holds, in buffer order, the glyph of each character
\* event, with '^' right before it when control is held, and nothing else;
\* after append('a'), append('b'), append(Backspace), append('c') it is "ac".
C10_DisplayString ==
    LET d == ToDisplayString(motion)
    IN /\ Len(d) = Cardinality({i \in DOMAIN motion : IsChar(motion[i])})
                 + Cardinality({i \in DOMAIN motion : IsCtrlChar(motion[i])})
       /\ \A i \in DOMAIN motion :
            IsChar(motion[i]) =>
                /\ d[GlyphPos(motion, i)] = motion[i].code[2]
                /\ IsCtrlChar(motion[i]) => d[GlyphPos(motion, i) - 1] = "^"
       /\ hist = [i \in 1..4 |->
                    [call |-> "append",
                     ev |-> KeyEvent(<<<<"Char", "a">>, <<"Char", "b">>,
                                       <<"Backspace">>, <<"Char", "c">>>>[i],
                                     {}, "Press")]]
            => d = <<"a", "c">>

\* C10's case: the recorded a, b, Backspace, c, displayed
C10_Witness ==
    /\ Len(hist) = 4
    /\ \A i \in 1..4 : hist[i].call = "append"
    /\ hist[1].ev = KeyEvent(Char("a"), {}, "Press")
    /\ hist[2].ev = KeyEvent(Char("b"), {}, "Press")
    /\ hist[3].ev = KeyEvent(<<"Backspace">>, {}, "Press")
    /\ hist[4].ev = KeyEvent(Char("c"), {}, "Press")
    /\ ToDisplayString(motion) = <<"a", "c">>


-----------------------------------------------------------------------------
(* MotionTokenizer properties *)

\* the key whose dispatch ended the last call of next() that took a key
LastKey == lx_seen[Len(lx_seen)]
LastToken == lx_out[Len(lx_out)]

\* the call of next() that took the last key returned a token of this kind
LastKeyGave(kind) ==
    /\ lx_pc = "run"
    /\ lx_out # <<>>
    /\ LastToken.kind = kind

IsCharKey(ke, cs) == ke.code[1] = "Char" /\ ke.code[2] \in cs

\* the trigger the tokenizer's alias table resolves a name to
Trigger(name) == AliasGet(lx_aliases, name)[1]

\* C11: a character equal to the resolved leader trigger yields the client
\* command marker, one equal to the commander trigger the server command
\* marker, and any other printable character that opens no literal an
\* identifier; with leader "," the keys , q Enter yield the client command
\* marker, the identifier q and Submit.
C11_CommandMarkers ==
    /\ (lx_seen # <<>> /\ IsCharKey(LastKey, {Trigger(leader)}))
          => (LastKeyGave("ClientCommand") /\ LastToken = ClientCommandToken)
    /\ (lx_seen # <<>> /\ IsCharKey(LastKey, {Trigger(commander)}))
          => (LastKeyGave("ServerCommand") /\ LastToken = ServerCommandToken)
    /\ (lx_seen # <<>>
        /\ IsCharKey(LastKey, {",", ";", "q"} \ {Trigger(leader), Trigger(commander)}))
          => LastKeyGave("Identifier")
    /\ (Trigger(leader) = ","
        /\ lx_seen = <<Press(Char(",")), Press(Char("q")), Press(<<"Enter">>)>>)
          => lx_out = <<ClientCommandToken, IdentifierToken(<<"q">>), SubmitToken>>

\* C12: a "-" or a decimal digit opens a numeric literal, and the call of
\* next() that takes it returns a Number token; the keys - 4 2 Enter yield
\* the number -42 and Submit.
C12_NumberLiteral ==
    /\ (lx_seen # <<>> /\ IsCharKey(LastKey, {"-"} \cup Digits))
          => LastKeyGave("Number")
    /\ lx_seen = <<Press(Char("-")), Press(Char("4")), Press(Char("2")),
                   Press(<<"Enter">>)>>
          => lx_out = <<NumberToken(-42), SubmitToken>>

\* C13: a double quote opens a string literal, and the call of next() that
\* takes it returns a StringLiteral token.
C13_StringLiteral ==
    (lx_seen # <<>> /\ IsCharKey(LastKey, {"\""})) => LastKeyGave("StringLiteral")

\* a key that is Enter, a whitespace character or no character at all
IsPlainKey(ke) == ke.code[1] # "Char" \/ IsWhitespace(ke.code[2])

\* one Submit per Enter, one Chord with the raw event per non-character key,
\* nothing for whitespace
RECURSIVE PlainTokens(_)
PlainTokens(keys) ==
    IF keys = <<>> THEN <<>>
    ELSE (IF Head(keys).code = <<"Enter">> THEN <<[kind |-> "Submit"]>>
          ELSE IF Head(keys).code[1] = "Char" THEN <<>>
          ELSE <<[kind |-> "Chord", ev |-> Head(keys)]>>)
         \o PlainTokens(Tail(keys))

\* C14: for an input of Enter events, whitespace characters and
\* non-character key events only, the tokens returned are, in order, one
\* Submit per Enter and one Chord carrying the identical raw event per
\* non-character event, and nothing for the whitespace.
C14_SubmitAndChords ==
    (\A i \in DOMAIN lx_seen : IsPlainKey(lx_seen[i]))
        => (lx_pc = "run" /\ lx_out = PlainTokens(lx_seen))

C14_Witness ==
    /\ lx_pc = "run"
    /\ Len(lx_seen) = 4
    /\ \A i \in DOMAIN lx_seen : IsPlainKey(lx_seen[i])
    /\ \E i \in DOMAIN lx_seen : lx_seen[i].code = <<"Enter">>
    /\ \E i \in DOMAIN lx_seen : IsWhitespaceKey(lx_seen[i])
    /\ \E i \in DOMAIN lx_seen : lx_seen[i].code = <<"Up">>
    /\ Len(lx_out) = 3
    /\ lx_ended

\* C15: the tokenizer does not abort on malformed input: after a string
\* literal that is never closed, or a "-" with no digit after it, next()
\* has not panicked.
C15_NoAbort ==
    (\E i \in DOMAIN lx_seen : IsCharKey(lx_seen[i], {"\"", "-"})) => lx_pc = "run"


-----------------------------------------------------------------------------
(* Properties of the shared buffer *)

\* C16: operations on the scrollback buffer exclude one another: at most
\* one thread is between its lock() and the drop of its guard, that thread
\* is the holder, and a render sees the same lines from rows() to the
\* offset it computes: no push, scroll or eviction of another thread falls
\* between the steps of an operation.
C16_MutualExclusion ==
    /\ \A t1, t2 \in Threads :
          (th_pc[t1] \in Guarded /\ th_pc[t2] \in Guarded) => t1 = t2
    /\ \A t \in Threads : th_pc[t] \in Guarded => mtx_holder = Some(t)
    /\ \A t \in Threads : th_pc[t] \in {"store", "offset"} => th_obs = count(raw)

C16_Witness ==
    /\ th_pc["main"] = "evict"
    /\ th_pc["ui"] = "lock"
    /\ th_op["ui"] = "render"
    /\ scroll > 0
    /\ Len(raw) > buf_limit - 1
    /\ buf_limit > 1

-----------------------------------------------------------------------------
(* Properties of the main loop *)

\* C18: only key events of kind Press reach InputHandler::append; Release
\* and Repeat events are filtered out before it.
C18_OnlyPressAppended ==
    \A i \in DOMAIN hist : hist[i].call = "append" => hist[i].ev.kind = "Press"

\* the append calls that a sequence of terminal events asks for: one per
\* key event, in order
RECURSIVE AppendCalls(_)
AppendCalls(evs) ==
    IF evs = <<>> THEN <<>>
    ELSE (IF Head(evs).type = "Key"
          THEN <<[call |-> "append", ev |-> Head(evs).key]>>
          ELSE <<>>)
         \o AppendCalls(Tail(evs))

\* the events event::read has returned
Consumed == SubSeq(ev_seen, 1, Len(ev_seen) - Len(ev_queue))

\* C19: handle_events passes each key event it reads to append, one at a
\* time and in arrival order, and appends nothing for an event that is no
\* key; when it returns Ok no event is left in the queue: every event that
\* has arrived has been read.
C19_DrainInOrder ==
    /\ [](hist = AppendCalls(Consumed))
    /\ [][(m_pc = "poll" /\ m_pc' = "process_user_input")
            => (ev_queue' = <<>> /\ hist' = AppendCalls(ev_seen'))]_vars

C19_Witness ==
    /\ m_pc = "process_user_input"
    /\ ev_queue = <<>>
    /\ Len(ev_seen) = 3
    /\ ev_seen[2].type = "Resize"
    /\ ev_seen[1] = KeyEv(Press(<<"Backspace">>))
    /\ ev_seen[3] = KeyEv(Press(Char("a")))
    /\ Len(hist) = 2
    /\ Len(motion) = 1

\* the UI task has stopped: it returned, or it was dropped
UiStopped == ui_pc \in {"done", "cancelled"}

\* C20: once the exit flag is set the main loop starts no further
\* iteration and run signals the UI task and returns; the UI task stops
\* only after the main loop has ended, and when it has stopped it has
\* released the terminal, exactly once.
C20_GracefulExit ==
    /\ exit => frames = exit_frame
    /\ (exit /\ MainEnded) => (m_pc = "returned_ok" /\ stop_signal)
    /\ UiStopped => MainEnded
    /\ released <= 1
    /\ (exit /\ MainEnded /\ UiStopped) => (ui_pc = "done" /\ released = 1)


-----------------------------------------------------------------------------
(* Properties of Tui *)

\* the Tui handles that are live
LiveHandles == tu_handles["c1"] + tu_handles["c2"]

\* C21: at most one Tui handle is live at any time, under every
\* interleaving of acquire and release calls; and after a release, an
\* acquire that begins with no handle live and no other call under way
\* succeeds again (unless the terminal fails it).
C21_AcquireExclusive ==
    /\ LiveHandles <= 1
    /\ \A t \in Callers :
          (tu_pc[t] = "idle" /\ released >= 1 /\ tu_free[t] /\ ~tu_io[t])
              => tu_res[t] # "err"


-----------------------------------------------------------------------------
(* Properties of the scroll and viewport arithmetic *)

\* the bound as the claims write it: max(0, count + 2 - last_viewport_height)
PlainBound(n, h) == Max(0, n + 2 - h)

\* the bound with count + 2 kept within u16
SaturatedBound(n, h) == Max(0, Min(n + 2, U16Max) - h)

\* the offset a scroll operation must leave, for the bound b
ScrollResult(b) ==
    IF ar_op = "set_scroll" THEN Min(ar_arg, b)
    ELSE IF ar_op = "inc_scroll" THEN Min(ar_old.s + 1, b)
    ELSE Min(Max(ar_old.s - 1, 0), b)

IsScrollOp == ar_op \in {"set_scroll", "inc_scroll", "dec_scroll"}

\* C22, as stated: after set_scroll(v) the offset is min(v, B), after
\* inc_scroll min(old + 1, B), after dec_scroll min(max(old - 1, 0), B),
\* with B = max(0, count + 2 - last_viewport_height).
C22_ClampAsStated ==
    IsScrollOp => ar_s = ScrollResult(PlainBound(ar_old.n, ar_old.h))

\* C22, amended: the same with B = max(0, min(count + 2, 65535) -
\* last_viewport_height); dec_scroll at 0 stays 0 when B allows it and
\* inc_scroll at B stays B.
C22_ClampSaturated ==
    /\ IsScrollOp => ar_s = ScrollResult(SaturatedBound(ar_old.n, ar_old.h))
    /\ (ar_op = "dec_scroll" /\ ar_old.s = 0) => ar_s = 0
    /\ (ar_op = "inc_scroll" /\ ar_old.s = SaturatedBound(ar_old.n, ar_old.h))
          => ar_s = ar_old.s

C22_Witness ==
    /\ ar_op = "set_scroll"
    /\ ar_old.n = U16Max - 1
    /\ ar_old.h = 1
    /\ ar_arg = U16Max
    /\ ar_s = U16Max - 1


-----------------------------------------------------------------------------
(* Properties of the visible window, under Spec *)

\* the line at the first position of the window that starts at offset off
FirstVisible(q, off) == IF off < Len(q) THEN Some(q[off + 1]) ELSE None

Stored(q) == {q[i] : i \in DOMAIN q}

-----------------------------------------------------------------------------
(* Properties of the window offset, under SpecArith *)

IsRender == ar_op = "render"

\* the rows left for lines in a viewport of height h
ContentRows(h) == Max(h - 2, 0)

\* C24: render_ref starts the window at max(0, count - (height - 2) - scroll)
\* with height - 2 saturating at 0; with scroll 0 the window reaches the
\* newest line, with scroll equal to max(0, count + 2 - height) it starts at
\* index 0, and the start never exceeds the count.
C24_WindowStart ==
    IsRender =>
        /\ ar_off = Max(0, ar_old.n - ContentRows(ar_arg) - ar_old.s)
        /\ ar_old.s = 0 => Min(ar_off + ContentRows(ar_arg), ar_old.n) = ar_old.n
        /\ ar_old.s = PlainBound(ar_old.n, ar_arg) => ar_off = 0
        /\ ar_off <= ar_old.n

\* C24's case: a render of a buffer panned to the bound, taller than the
\* viewport, which starts the window at the oldest line
C24_Witness ==
    /\ IsRender
    /\ ar_arg > 2
    /\ ar_old.n > ContentRows(ar_arg)
    /\ ar_old.s = PlainBound(ar_old.n, ar_arg)
    /\ ar_old.s > 0
    /\ ar_off = 0


-----------------------------------------------------------------------------
(* Frame conditions of the buffer, under Spec *)

\* C25: render_ref changes only last_frame_height, to the height it was
\* given, and leaves the lines and the scroll offset alone; set_scroll,
\* inc_scroll and dec_scroll leave the lines, buf_limit and
\* last_frame_height alone; push_line changes neither last_frame_height nor
\* buf_limit.
C25_FrameConditions ==
    [][/\ \A height \in 0..MaxHeight :
             render_ref(height) =>
                 /\ last_frame_height' = height
                 /\ UNCHANGED <<raw, scroll, buf_limit>>
       /\ ((\E val \in ScrollArgs : set_scroll(val)) \/ inc_scroll \/ dec_scroll)
             => UNCHANGED <<raw, buf_limit, last_frame_height>>
       /\ (push_line \/ evict_spin)
             => UNCHANGED <<buf_limit, last_frame_height>>]_vars

\* C25's case: a render with a smaller height than the one the offset was
\* clamped with, which leaves the offset above the new bound
C25_Witness ==
    /\ last_op = "render"
    /\ last_frame_height = last_arg
    /\ count(raw) > 0
    /\ scroll > ScrollBound(raw, last_frame_height)


-----------------------------------------------------------------------------
(* Saturation at the ends of the u16 range, under SpecArith *)

\* C26: the scroll and viewport arithmetic saturates and never wraps:
\* inc_scroll at 65535 does not wrap to 0, dec_scroll at 0 does not wrap to
\* 65535, count + 2 saturates at 65535, count + 2 - last_frame_height
\* saturates at 0 when the height exceeds count + 2, and the render offset
\* saturates at 0 when height - 2 + scroll exceeds the count.
C26_Saturates ==
    /\ ar_s \in 0..U16Max
    /\ ar_off \in 0..U16Max
    /\ (ar_op = "inc_scroll" /\ ar_old.s = U16Max)
          => ar_s = Min(U16Max, SaturatedBound(ar_old.n, ar_old.h))
    /\ (ar_op = "dec_scroll" /\ ar_old.s = 0) => ar_s = 0
    /\ (ar_op = "set_scroll" /\ ar_old.n + 2 > U16Max)
          => ar_s = Min(ar_arg, U16Max - ar_old.h)
    /\ (IsScrollOp /\ ar_old.h > ar_old.n + 2) => ar_s = 0
    /\ (IsRender /\ ContentRows(ar_arg) + ar_old.s > ar_old.n) => ar_off = 0

\* C26's case: inc_scroll at u16::MAX with a bound of u16::MAX, which needs
\* count + 2 to saturate as well
C26_Witness ==
    /\ ar_op = "inc_scroll"
    /\ ar_old.s = U16Max
    /\ ar_old.n + 2 > U16Max
    /\ ar_old.h = 0
    /\ ar_s = U16Max


-----------------------------------------------------------------------------
(* Retention, under Spec *)

\* the push numbers n - k + 1 .. n, in push order
MostRecent(n, k) == [i \in 1..k |-> n - k + i]

-----------------------------------------------------------------------------
(* The token stream as a whole, under SpecLex *)

IsPrefix(a, b) == Len(a) <= Len(b) /\ a = SubSeq(b, 1, Len(a))

\* C28: on a finite input on which no arm panics, every call of next()
\* returns after taking finitely many events from the input, left to right;
\* it adds at most one token, so there are never more tokens than events
\* taken; the tokens are in the order of their events; and once a call has
\* returned None every later call returns None and adds no token.
C28_FiniteStream ==
    [][(lx_pc = "run" /\ lx_pc' = "run") =>
          /\ IsPrefix(lx_seen, lx_seen')
          /\ Len(lx_seen') <= MaxKeys
          /\ IsPrefix(lx_out, lx_out')
          /\ Len(lx_out') <= Len(lx_out) + 1
          /\ Len(lx_out') <= Len(lx_seen')
          /\ lx_out' = PlainTokens(lx_seen')
          /\ lx_ended => (lx_ended' /\ lx_ret' = None /\ lx_out' = lx_out)]_vars

\* C28's case: tokens were returned, whitespace was passed over, the end
\* was reported, and next() was called again after that
C28_Witness ==
    /\ lx_pc = "run"
    /\ lx_ended
    /\ lx_after >= 2
    /\ lx_ret = None
    /\ Len(lx_out) >= 2
    /\ Len(lx_seen) > Len(lx_out)


-----------------------------------------------------------------------------
(* Termination of push_line, under Spec *)

\* C29: push_line returns for every buf_limit in 0..65535 and every state of
\* the buffer: a call never comes to a turn of its eviction loop in which
\* the deque is empty and raw.len() >= buf_limit still holds, a turn that
\* changes nothing and so is followed by the same turn for ever.
C29_PushLineReturns ==
    ~(/\ lb_pc = "evict_loop"
      /\ raw = <<>>
      /\ Len(raw) >= buf_limit
      /\ Evict(raw, buf_limit) = raw)


-----------------------------------------------------------------------------
(* The width of the sub-lines, under SpecWrap *)

\* no grapheme cluster of any span is wider than width
GraphemesFit(line, width) ==
    \A i \in DOMAIN line :
        \A g \in ClustersOf(line[i].content) : StrWidth(g) <= width

\* C30: for a line and a width that is at least the width of the line's
\* widest grapheme, every sub-line is at most that wide, and if the line
\* has any text no sub-line is without text.
C30_WrapWidthBound ==
    (w_pc = "done" /\ GraphemesFit(w_line, w_width)) =>
        /\ \A i \in DOMAIN w_text : LineWidth(w_text[i]) <= w_width
        /\ LineText(w_line) # <<>> =>
               \A i \in DOMAIN w_text : LineText(w_text[i]) # <<>>

\* C30's case: a two-span line with a wide char, wrapped within a span or at
\* the boundary of the spans at the width of its widest grapheme
C30_Witness ==
    /\ w_pc = "done"
    /\ GraphemesFit(w_line, w_width)
    /\ Len(w_line) = 2
    /\ \A i \in DOMAIN w_line : w_line[i].content # <<>>
    /\ \E i \in DOMAIN LineText(w_line) : LineText(w_line)[i] = "W"
    /\ w_width = 2
    /\ Len(w_text) >= 2
    /\ \E i \in DOMAIN w_text : LineWidth(w_text[i]) = w_width


-----------------------------------------------------------------------------
(* The row height against the sub-lines, under SpecWrap *)

\* every grapheme cluster of every span is 1 column wide
GraphemeWidths1(line) ==
    \A i \in DOMAIN line :
        \A g \in ClustersOf(line[i].content) : StrWidth(g) = 1

\* C31: for a line whose graphemes are all 1 column wide and a width > 0,
\* the row height, (line width / width) + 1, is at least the number of
\* sub-lines the wrap loop makes of the line at that width.
C31_RowHoldsSubLines ==
    (w_pc = "done" /\ w_width > 0 /\ GraphemeWidths1(w_line)) =>
        /\ w_height = (LineWidth(w_line) \div w_width) + 1
        /\ w_height >= Len(w_text)

\* C31's case: a two-span line wrapped into several sub-lines, as many as
\* the row is high
C31_Witness ==
    /\ w_pc = "done"
    /\ w_width > 0
    /\ GraphemeWidths1(w_line)
    /\ Len(w_line) = 2
    /\ \A i \in DOMAIN w_line : w_line[i].content # <<>>
    /\ Len(w_text) >= 2
    /\ w_height = Len(w_text)


-----------------------------------------------------------------------------
(* Properties of the two locks, under SpecLock *)

Waiting(t) == k_pc[t] \in {"want_ctx", "want_buf"}

\* no thread asks for a lock whose guard it holds
NoReentry ==
    \A t \in Threads :
        /\ k_pc[t] = "want_buf" => "buf" \notin k_held[t]
        /\ k_pc[t] = "want_ctx" => "ctx" \notin k_held[t]

\* no two threads have taken two locks in opposite orders
NoOppositeOrder ==
    \A t, u \in Threads :
        \A e \in k_edges[t] : t # u => <<e[2], e[1]>> \notin k_edges[u]

\* C32: under every interleaving of the main thread (the context write
\* lock; tracing events and scroll commands, which lock the log buffer) and
\* the UI task (the context read lock, then the log buffer's lock during
\* render), no thread asks for a lock it holds, the two threads never take
\* locks in opposite orders, and every lock request of a running process is
\* granted in the end.
C32_DeadlockFree ==
    /\ [](NoReentry /\ NoOppositeOrder)
    /\ \A t \in Threads : Waiting(t) ~> (~Waiting(t) \/ ~ProcessAlive)

\* C32's case: the UI task renders under both guards, having waited for the
\* buffer, while the main thread waits for the log buffer
C32_Witness ==
    /\ ProcessAlive
    /\ k_held["ui"] = {"ctx", "buf"}
    /\ k_waited["ui"]
    /\ <<"ctx", "buf">> \in k_edges["ui"]
    /\ k_pc["main"] = "want_buf"
    /\ k_waited["main"]
    /\ buf_limit > 0

=============================================================================
